---- MODULE Spec2Model ----
(***************************************************************************)
(* A model of the ops CLI (callumalpass/ops): the PID-stamped advisory     *)
(* lock of src/lib/store.ts and the withCollection session built on it,    *)
(* the sidecar upsert / field-set pair of src/lib/ops-data.ts, and the     *)
(* run executor of src/lib/executor.ts, the issue command's triage and     *)
(* address runs, the resolution of agent settings, buildContext, the       *)
(* prompt template renderer, parseKeyValuePairs, itemPath, the providers'  *)
(* item references, the commands' store accesses, and the queue and retry  *)
(* loop of the VS Code extension's OpsClient.                              *)
(*                                                                         *)
(* The specifications share the variables; each leaves the variables of    *)
(* the others untouched:                                                   *)
(*   LockSpec     ops processes running withCollection on one store root   *)
(*   StaleLockSpec  the same, started on a marker naming a dead process    *)
(*   SidecarSpec  ensure / field-set operations on one sidecar record      *)
(*   RunSpec      one executeRun call                                      *)
(*   IssueSpec    one ops issue invocation: sidecar, triage, address       *)
(*   ParamSpec    one agent setting resolved from its three sources        *)
(*   ContextSpec  one buildContext call                                    *)
(*   TemplateSpec one placeholder rendered in its spaced and tight forms   *)
(*   ParseSpec    one parseKeyValuePairs call                              *)
(*   PathSpec     itemPath called on every key of one kind                 *)
(*   RefSpec      one providerItemRef call                                 *)
(*   CommandSpec  doctor, init and command new beside locked sessions      *)
(*   RepoSpec     ensure / field-set operations naming two repositories    *)
(*   ClientSpec   runJson calls queued on one OpsClient                    *)
(*   RetrySpec    one runExecWithRetries call                              *)
(***************************************************************************)
EXTENDS Integers, Sequences, FiniteSets, TLC

\* ------------------------------------------------------------------ bounds

\* Number of live ops processes started against the same store root.
NumProcs == 2

Procs == 1..NumProcs

\* Pids found in a marker left by an earlier invocation that is gone.
StalePids == {0}

Pids == Procs \cup StalePids

Signals == {"SIGINT", "SIGTERM"}

VARIABLES
  \* ---- LockSpec
  marker,      \* the .lock file: [kind |-> "absent" | "pid" | "unreadable", pid]
  pc,          \* per process: position in the command / withCollection / acquireLock
  pidRead,     \* per process: the pid parsed from the marker (line 21)
  handlers,    \* per process: signals that have the cleanup listener
  err,         \* per process: the error being thrown, "none" if none
  errPid,      \* per process: the pid named in the LockHeld message
  exitHow,     \* per process: how the process ended, "running" before
  acq,         \* per process: acquireLock returned normally
  rel,         \* per process: "no", "once", "again": releaseLock calls so far
  sigHeld,     \* per process: a signal arrived between acquire and release
  unlockedOp,  \* a store access happened while the marker was not the accessor's
  \* ---- SidecarSpec
  store,       \* the collection's item_state documents: path -> frontmatter
  log,         \* the ensure / field-set operations made so far, in order
  \* ---- RunSpec
  rpc,         \* position of the executeRun call: start, prepared, agent, done
  input,       \* the call's input: command body, built context, mode settings
  prepared,    \* what prepareRun returned: renderedPrompt, missingRequired
  agentCalls,  \* number of runAgent calls made
  agentInput,  \* what the last runAgent call was given
  child,       \* how the agent's child process ended
  result,      \* what executeRun returned or threw
  \* ---- IssueSpec
  ipc,         \* position of `ops issue address`: ensure, gate, triage, address, exited
  iopts,       \* --skip-triage and --force-triage
  analysis,    \* the sidecar's summary, priority, difficulty and risk
  shouldRunTriage, \* line 134
  agents,      \* the agent invocations made, in order: "triage", "address"
  addressSaw,  \* the sidecar's analysis fields when the address agent started
  triageResult, \* what the triage executeRun returned or threw
  iexit,        \* the process's exit code, -1 while it runs
  \* ---- ParamSpec
  ppc,         \* start, done
  setting,     \* a parameter and what each precedence level holds for it
  passed,       \* the value runAgent is given for it
  \* ---- ContextSpec
  cpc,         \* start, done, failed
  binput,      \* buildContext's input: target item, store, ensureSidecar, explicitVars
  bresult,     \* what the call left: the store, the fetch's error, the error thrown
  context,      \* the context returned: key -> value, Missing for a key not in it
  \* ---- TemplateSpec
  tpc,         \* start, done
  form,        \* the template: one placeholder and the spacing it is written with
  tctx,        \* the context it is rendered against
  rendered,    \* renderTemplate's text and missingRequired
  renderedTight, \* the same for the template without whitespace in the braces
  extracted,    \* extractPlaceholders' result
  \* ---- ParseSpec
  qpc,         \* start, done
  pairs,       \* the key=value arguments
  coerceFlag,  \* parseKeyValuePairs' coerce argument
  parsed,       \* what parseKeyValuePairs returned or threw
  \* ---- PathSpec
  pathKind,    \* the kind itemPath is called with
  pathOf,       \* itemPath's result for each key it has been called with
  \* ---- RefSpec
  refItem,     \* the item providerItemRef is called with
  ref,          \* the reference it returned
  tasks,       \* the tasks enqueued on the client, in call order
  queue,        \* this.queue: the promise the next task is chained on
  attempt,     \* runExecWithRetries: the loop's counter
  xpc,         \* runExecWithRetries: exec, sleep, returned, threw
  calls,       \* runExecWithRetries: execFileAsync calls made
  execResult   \* runExecWithRetries: what the last call gave, or what was thrown

lockVars == <<marker, pc, pidRead, handlers, err, errPid, exitHow,
              acq, rel, sigHeld, unlockedOp>>

sidecarVars == <<store, log>>

runVars == <<rpc, input, prepared, agentCalls, agentInput, child, result>>

issueVars == <<ipc, iopts, analysis, shouldRunTriage, agents, addressSaw,
               triageResult, iexit>>

paramVars == <<ppc, setting, passed>>

contextVars == <<cpc, binput, context, bresult>>

templateVars == <<tpc, form, tctx, rendered, renderedTight, extracted>>

parseVars == <<qpc, pairs, coerceFlag, parsed>>

pathVars == <<pathKind, pathOf>>

refVars == <<refItem, ref>>

clientVars == <<tasks, queue>>

retryVars == <<attempt, xpc, calls, execResult>>

vars == <<lockVars, sidecarVars, runVars, issueVars, paramVars, contextVars, templateVars, parseVars, pathVars, refVars, clientVars, retryVars>>

\* What the steps of one specification leave alone.
notLockVars == <<sidecarVars, runVars, issueVars, paramVars, contextVars, templateVars, parseVars, pathVars, refVars, clientVars, retryVars>>

notSidecarVars == <<lockVars, runVars, issueVars, paramVars, contextVars, templateVars, parseVars, pathVars, refVars, clientVars, retryVars>>

notRunVars == <<lockVars, sidecarVars, issueVars, paramVars, contextVars, templateVars, parseVars, pathVars, refVars, clientVars, retryVars>>

notIssueVars == <<lockVars, sidecarVars, runVars, paramVars, contextVars, templateVars, parseVars, pathVars, refVars, clientVars, retryVars>>

notParamVars == <<lockVars, sidecarVars, runVars, issueVars, contextVars, templateVars, parseVars, pathVars, refVars, clientVars, retryVars>>

notContextVars == <<lockVars, sidecarVars, runVars, issueVars, paramVars, templateVars, parseVars, pathVars, refVars, clientVars, retryVars>>

notTemplateVars == <<lockVars, sidecarVars, runVars, issueVars, paramVars, contextVars, parseVars, pathVars, refVars, clientVars, retryVars>>

notParseVars == <<lockVars, sidecarVars, runVars, issueVars, paramVars, contextVars, templateVars, pathVars, refVars, clientVars, retryVars>>

notPathVars == <<lockVars, sidecarVars, runVars, issueVars, paramVars, contextVars, templateVars, parseVars, refVars, clientVars, retryVars>>

notRefVars == <<lockVars, sidecarVars, runVars, issueVars, paramVars, contextVars, templateVars, parseVars, pathVars, clientVars, retryVars>>

notClientVars == <<lockVars, sidecarVars, runVars, issueVars, paramVars, contextVars, templateVars, parseVars, pathVars, refVars, retryVars>>

notRetryVars == <<lockVars, sidecarVars, runVars, issueVars, paramVars, contextVars, templateVars, parseVars, pathVars, refVars, clientVars>>

\* ------------------------------------------------------------ marker file

Absent == [kind |-> "absent", pid |-> 0]

Unreadable == [kind |-> "unreadable", pid |-> 0]

PidFile(n) == [kind |-> "pid", pid |-> n]

\* process.kill(pid, 0) succeeds exactly for a running process.
isProcessAlive(pid) == pid \in Procs /\ pc[pid] # "exited"

\* unlinkSync: removes the file, throws ENOENT when there is none.
unlinkSync(m) == [file |-> Absent, threw |-> (m.kind = "absent")]

\* releaseLock with the catch removed: ENOENT propagates.
releaseLockNoCatch(m) == unlinkSync(m)

\* releaseLock: try { unlinkSync } catch { /* already gone */ }
releaseLock(m) == [file |-> unlinkSync(m).file, threw |-> FALSE]

\* The staleness test of line 22 with the liveness probe dropped.
markerIsHeldNever(pid) == FALSE

\* Line 22: !isNaN(pid) && isProcessAlive(pid), for a pid that parsed.
markerIsHeld(pid) == isProcessAlive(pid)

\* The second create looping back to the staleness check when it fails.
secondCreateRetries(m, p) ==
  IF m.kind = "absent"
    THEN [file |-> PidFile(p), next |-> "onInt", err |-> "none"]
    ELSE [file |-> m, next |-> "read", err |-> "none"]

\* Lines 34-38: writeFileSync(.., {flag: "wx"}) once more; any failure is fatal.
secondCreate(m, p) ==
  IF m.kind = "absent"
    THEN [file |-> PidFile(p), next |-> "onInt", err |-> "none"]
    ELSE [file |-> m, next |-> "catch", err |-> "LockAcquisitionFailed"]

\* One more releaseLock call by a process.
Released(r) == IF r = "no" THEN "once" ELSE "again"

\* The process is between its successful acquire and its own release.
Holds(p) == pc[p] # "exited" /\ acq[p] /\ rel[p] = "no"

\* Positions at which the process awaits, so the event loop runs listeners.
AwaitPCs == {"open", "fn", "close"}

\* A store access by p: the collection is touched, with or without the lock.
access(p) == unlockedOp \/ marker # PidFile(p)

\* The process ends: what it held in memory (its listeners, the error in
\* flight) is gone; the marker file is whatever it was.
Exit(p, how) ==
  /\ pc' = [pc EXCEPT ![p] = "exited"]
  /\ exitHow' = [exitHow EXCEPT ![p] = how]
  /\ pidRead' = [pidRead EXCEPT ![p] = 0]
  /\ handlers' = [handlers EXCEPT ![p] = {}]
  /\ err' = [err EXCEPT ![p] = "none"]
  /\ errPid' = [errPid EXCEPT ![p] = 0]
  /\ acq' = [acq EXCEPT ![p] = FALSE]
  /\ rel' = [rel EXCEPT ![p] = "no"]

\* ----------------------------------------------------------- acquireLock

\* Line 16: the first exclusive create.
AcquireCreate(p) ==
  /\ UNCHANGED notLockVars
  /\ pc[p] = "init"
  /\ IF marker.kind = "absent"
       THEN /\ marker' = PidFile(p)
            /\ pc' = [pc EXCEPT ![p] = "onInt"]
            /\ acq' = [acq EXCEPT ![p] = TRUE]
       ELSE /\ pc' = [pc EXCEPT ![p] = "read"]
            /\ UNCHANGED <<marker, acq>>
  /\ UNCHANGED <<pidRead, handlers, err, errPid, exitHow, rel, sigHeld, unlockedOp>>

\* Line 21: readFileSync + parseInt; a vanished or unparsable marker falls
\* through to the retry.
AcquireRead(p) ==
  /\ UNCHANGED notLockVars
  /\ pc[p] = "read"
  /\ IF marker.kind = "pid"
       THEN /\ pidRead' = [pidRead EXCEPT ![p] = marker.pid]
            /\ pc' = [pc EXCEPT ![p] = "probe"]
       ELSE /\ pc' = [pc EXCEPT ![p] = "unlink"]
            /\ UNCHANGED pidRead
  /\ UNCHANGED <<marker, handlers, err, errPid, exitHow, acq, rel,
                 sigHeld, unlockedOp>>

\* Lines 22-29: the liveness probe; a live holder is the LockHeld error.
AcquireProbe(p) ==
  /\ UNCHANGED notLockVars
  /\ pc[p] = "probe"
  /\ IF markerIsHeld(pidRead[p])
       THEN /\ err' = [err EXCEPT ![p] = "LockHeld"]
            /\ errPid' = [errPid EXCEPT ![p] = pidRead[p]]
            /\ pc' = [pc EXCEPT ![p] = "catch"]
       ELSE /\ pc' = [pc EXCEPT ![p] = "unlink"]
            /\ UNCHANGED <<err, errPid>>
  /\ UNCHANGED <<marker, pidRead, handlers, exitHow, acq, rel,
                 sigHeld, unlockedOp>>

\* Line 33: try { unlinkSync } catch { ignore }.
AcquireUnlink(p) ==
  /\ UNCHANGED notLockVars
  /\ pc[p] = "unlink"
  /\ marker' = unlinkSync(marker).file
  /\ pc' = [pc EXCEPT ![p] = "create2"]
  /\ UNCHANGED <<pidRead, handlers, err, errPid, exitHow, acq, rel,
                 sigHeld, unlockedOp>>

\* Lines 34-38: the one retry.
AcquireRetry(p) ==
  /\ UNCHANGED notLockVars
  /\ pc[p] = "create2"
  /\ LET r == secondCreate(marker, p) IN
       /\ marker' = r.file
       /\ pc' = [pc EXCEPT ![p] = r.next]
       /\ err' = [err EXCEPT ![p] = r.err]
       /\ acq' = [acq EXCEPT ![p] = (r.next = "onInt")]
  /\ UNCHANGED <<pidRead, handlers, errPid, exitHow, rel, sigHeld, unlockedOp>>

\* -------------------------------------------------------- withCollection

\* Line 61: process.on("SIGINT", cleanup).
RegisterInt(p) ==
  /\ UNCHANGED notLockVars
  /\ pc[p] = "onInt"
  /\ handlers' = [handlers EXCEPT ![p] = @ \cup {"SIGINT"}]
  /\ pc' = [pc EXCEPT ![p] = "onTerm"]
  /\ UNCHANGED <<marker, pidRead, err, errPid, exitHow, acq, rel,
                 sigHeld, unlockedOp>>

\* Line 62: process.on("SIGTERM", cleanup).
RegisterTerm(p) ==
  /\ UNCHANGED notLockVars
  /\ pc[p] = "onTerm"
  /\ handlers' = [handlers EXCEPT ![p] = @ \cup {"SIGTERM"}]
  /\ pc' = [pc EXCEPT ![p] = "open"]
  /\ UNCHANGED <<marker, pidRead, err, errPid, exitHow, acq, rel,
                 sigHeld, unlockedOp>>

\* Line 65: openCollection; a failure skips the inner try and runs the
\* outer finally.
OpenCollection(p) ==
  /\ UNCHANGED notLockVars
  /\ pc[p] = "open"
  /\ unlockedOp' = access(p)
  /\ \E ok \in BOOLEAN :
       IF ok
         THEN /\ pc' = [pc EXCEPT ![p] = "fn"]
              /\ UNCHANGED err
         ELSE /\ pc' = [pc EXCEPT ![p] = "offInt"]
              /\ err' = [err EXCEPT ![p] = "StoreError"]
  /\ UNCHANGED <<marker, pidRead, handlers, errPid, exitHow, acq,
                 rel, sigHeld>>

\* Line 67: a store operation made by the callback.
StoreOp(p) ==
  /\ UNCHANGED notLockVars
  /\ pc[p] = "fn"
  /\ unlockedOp' = access(p)
  /\ UNCHANGED <<marker, pc, pidRead, handlers, err, errPid,
                 exitHow, acq, rel, sigHeld>>

\* Line 67: the callback returns.
FnReturn(p) ==
  /\ UNCHANGED notLockVars
  /\ pc[p] = "fn"
  /\ pc' = [pc EXCEPT ![p] = "close"]
  /\ UNCHANGED <<marker, pidRead, handlers, err, errPid, exitHow,
                 acq, rel, sigHeld, unlockedOp>>

\* Line 67: the callback throws.
FnThrow(p) ==
  /\ UNCHANGED notLockVars
  /\ pc[p] = "fn"
  /\ pc' = [pc EXCEPT ![p] = "close"]
  /\ err' = [err EXCEPT ![p] = "CallbackError"]
  /\ UNCHANGED <<marker, pidRead, handlers, errPid, exitHow, acq,
                 rel, sigHeld, unlockedOp>>

\* The callback ends the process: process.exit(result.exitCode) of run,
\* triage and issue address, process.exit(2) of command validate. No
\* finally block runs.
FnExit(p) ==
  /\ UNCHANGED notLockVars
  /\ pc[p] = "fn"
  /\ \E how \in {"agent_exit", "validate_exit"} : Exit(p, how)
  /\ UNCHANGED <<marker, sigHeld, unlockedOp>>

\* Line 69: collection.close(), in the inner finally; its failure replaces
\* the pending error.
CloseCollection(p) ==
  /\ UNCHANGED notLockVars
  /\ pc[p] = "close"
  /\ unlockedOp' = access(p)
  /\ pc' = [pc EXCEPT ![p] = "offInt"]
  /\ \E ok \in BOOLEAN :
       IF ok THEN UNCHANGED err
             ELSE err' = [err EXCEPT ![p] = "StoreError"]
  /\ UNCHANGED <<marker, pidRead, handlers, errPid, exitHow, acq,
                 rel, sigHeld>>

\* Line 72: process.off("SIGINT", cleanup).
UnregisterInt(p) ==
  /\ UNCHANGED notLockVars
  /\ pc[p] = "offInt"
  /\ handlers' = [handlers EXCEPT ![p] = @ \ {"SIGINT"}]
  /\ pc' = [pc EXCEPT ![p] = "offTerm"]
  /\ UNCHANGED <<marker, pidRead, err, errPid, exitHow, acq, rel,
                 sigHeld, unlockedOp>>

\* Line 73: process.off("SIGTERM", cleanup).
UnregisterTerm(p) ==
  /\ UNCHANGED notLockVars
  /\ pc[p] = "offTerm"
  /\ handlers' = [handlers EXCEPT ![p] = @ \ {"SIGTERM"}]
  /\ pc' = [pc EXCEPT ![p] = "release"]
  /\ UNCHANGED <<marker, pidRead, err, errPid, exitHow, acq, rel,
                 sigHeld, unlockedOp>>

\* Line 74: releaseLock(lockPath) in the outer finally, then the return
\* value or the pending error leaves withCollection.
Release(p) ==
  /\ UNCHANGED notLockVars
  /\ pc[p] = "release"
  /\ LET r == releaseLock(marker) IN
       /\ marker' = r.file
       /\ err' = [err EXCEPT ![p] = IF r.threw THEN "ENOENT" ELSE @]
       /\ pc' = [pc EXCEPT ![p] =
                   IF r.threw \/ err[p] # "none" THEN "catch" ELSE "return"]
  /\ rel' = [rel EXCEPT ![p] = Released(@)]
  /\ UNCHANGED <<pidRead, handlers, errPid, exitHow, acq, sigHeld,
                 unlockedOp>>

\* The command's action returns and the process ends with status 0.
Return(p) ==
  /\ UNCHANGED notLockVars
  /\ pc[p] = "return"
  /\ Exit(p, "return")
  /\ UNCHANGED <<marker, sigHeld, unlockedOp>>

\* The command's catch: printError(...); process.exit(1).
Catch(p) ==
  /\ UNCHANGED notLockVars
  /\ pc[p] = "catch"
  /\ Exit(p, "error")
  /\ UNCHANGED <<marker, sigHeld, unlockedOp>>

\* Lines 58-60: a signal that has the cleanup listener; the listener runs
\* when the process is awaiting, releases the lock, and the process goes on
\* (a listener replaces the default action).
SignalHandled(p, s) ==
  /\ UNCHANGED notLockVars
  /\ pc[p] \in AwaitPCs
  /\ s \in handlers[p]
  /\ sigHeld' = [sigHeld EXCEPT ![p] = @ \/ Holds(p)]
  /\ LET r == releaseLock(marker) IN
       /\ marker' = r.file
       /\ IF r.threw
            THEN Exit(p, "crash")
            ELSE /\ rel' = [rel EXCEPT ![p] = Released(@)]
                 /\ UNCHANGED <<pc, exitHow, pidRead, handlers, err, errPid,
                                acq>>
  /\ UNCHANGED unlockedOp

\* A signal that has no listener: the default action ends the process at
\* once, wherever it is.
SignalDefault(p, s) ==
  /\ UNCHANGED notLockVars
  /\ pc[p] # "exited"
  /\ s \notin handlers[p]
  /\ sigHeld' = [sigHeld EXCEPT ![p] = @ \/ Holds(p)]
  /\ Exit(p, "signal")
  /\ UNCHANGED <<marker, unlockedOp>>

\* The store root is free, or holds a marker left by a process that is gone:
\* one naming its pid, or one whose content was never written.
LockInit ==
  /\ marker \in {Absent, Unreadable} \cup {PidFile(n) : n \in StalePids}
  /\ pc = [p \in Procs |-> "init"]
  /\ pidRead = [p \in Procs |-> 0]
  /\ handlers = [p \in Procs |-> {}]
  /\ err = [p \in Procs |-> "none"]
  /\ errPid = [p \in Procs |-> 0]
  /\ exitHow = [p \in Procs |-> "running"]
  /\ acq = [p \in Procs |-> FALSE]
  /\ rel = [p \in Procs |-> "no"]
  /\ sigHeld = [p \in Procs |-> FALSE]
  /\ unlockedOp = FALSE

LockStep(p) ==
  \/ AcquireCreate(p)
  \/ AcquireRead(p)
  \/ AcquireProbe(p)
  \/ AcquireUnlink(p)
  \/ AcquireRetry(p)
  \/ RegisterInt(p)
  \/ RegisterTerm(p)
  \/ OpenCollection(p)
  \/ StoreOp(p)
  \/ FnReturn(p)
  \/ FnThrow(p)
  \/ FnExit(p)
  \/ CloseCollection(p)
  \/ UnregisterInt(p)
  \/ UnregisterTerm(p)
  \/ Release(p)
  \/ Return(p)
  \/ Catch(p)

LockNext ==
  \E p \in Procs :
    \/ LockStep(p)
    \/ \E s \in Signals : SignalHandled(p, s) \/ SignalDefault(p, s)

\* No process has been started.
LockIdle ==
  /\ marker = Absent
  /\ pc = [p \in Procs |-> "exited"]
  /\ pidRead = [p \in Procs |-> 0]
  /\ handlers = [p \in Procs |-> {}]
  /\ err = [p \in Procs |-> "none"]
  /\ errPid = [p \in Procs |-> 0]
  /\ exitHow = [p \in Procs |-> "running"]
  /\ acq = [p \in Procs |-> FALSE]
  /\ rel = [p \in Procs |-> "no"]
  /\ sigHeld = [p \in Procs |-> FALSE]
  /\ unlockedOp = FALSE

\* ------------------------------------------------- sidecars (ops-data.ts)

\* Number of ensure / field-set operations in one run of SidecarSpec.
MaxOps == 3

\* Fields of item_state that only field-set operations write.
LocalFields ==
  {"local_status", "priority", "difficulty", "risk", "owner", "tags",
   "summary", "notes", "command_id", "sync_state", "last_analyzed_at"}

\* The item the operations are about, as the provider reports it at some
\* moment: issue 123 of one repository; title and state change remotely.
Snapshots ==
  [provider : {"github"}, kind : {"issue"}, key : {"123"}, repo : {"o/r"},
   number : {123}, title : {"Fix bug", "Fix login bug"},
   state : {"open", "closed"}, author : {"ann"}, url : {"u"},
   updatedAt : {"t"}]

\* paths.ts itemPath, for the purely numeric keys of issues and PRs.
itemPath(kind, key) == "items/" \o kind \o "-" \o key \o ".md"

\* The documents SidecarSpec looks at.
Paths == {itemPath(i.kind, i.key) : i \in Snapshots}

\* A path with no document.
NoDoc == [exists |-> FALSE, fm |-> <<>>]

Doc(fm) == [exists |-> TRUE, fm |-> fm]

\* resolveItemKey: the item's key, as fetchProviderItem has filled it in.
resolveItemKey(item) == item.key

makeItemId(item, key) ==
  IF item.provider = "local" \/ item.kind = "task"
    THEN "local:task:" \o key
    ELSE item.provider \o ":" \o item.repo \o ":" \o item.kind \o ":"
           \o ToString(item.number)

\* a ?? b
Coalesce(a, b) == IF a \notin {"undefined", "null"} THEN a ELSE b

\* The adapters' itemRef: github and azure, gitlab, jira.
itemRef(provider, item) ==
  CASE provider \in {"github", "azure"} ->
         IF item.kind = "issue"
           THEN item.repo \o "#" \o ToString(item.number)
           ELSE item.repo \o "#PR" \o ToString(item.number)
    [] provider = "gitlab" ->
         IF item.kind = "issue"
           THEN item.repo \o "#" \o ToString(item.number)
           ELSE item.repo \o "!" \o ToString(item.number)
    [] provider = "jira" -> item.repo \o "-" \o ToString(item.number)

\* providers/index.ts lines 41-46.
providerItemRef(item) ==
  IF item.provider = "local" \/ item.kind = "task"
    THEN Coalesce(item.sourcePath, Coalesce(item.key, item.title))
    ELSE itemRef(Coalesce(item.provider, "github"), item)

\* Lines 86-101: the fields an ensure writes (target_path, undefined for an
\* issue or PR, is left out).
remoteFields(item) ==
  [id |-> makeItemId(item, resolveItemKey(item)),
   provider |-> item.provider,
   kind |-> item.kind,
   key |-> resolveItemKey(item),
   external_ref |-> providerItemRef(item),
   repo |-> item.repo,
   number |-> item.number,
   remote_state |-> item.state,
   remote_title |-> item.title,
   remote_author |-> item.author,
   remote_url |-> item.url,
   remote_updated_at |-> item.updatedAt,
   last_seen_remote_updated_at |-> item.updatedAt]

\* Lines 108-112: the frontmatter of a new sidecar.
createFields(item) ==
  [f \in DOMAIN remoteFields(item) \cup {"local_status", "sync_state"} |->
     CASE f = "local_status" -> "new"
       [] f = "sync_state" -> "clean"
       [] OTHER -> remoteFields(item)[f]]

\* Frontmatter a with the fields of b written over it.
Merge(a, b) ==
  [f \in DOMAIN a \cup DOMAIN b |-> IF f \in DOMAIN b THEN b[f] ELSE a[f]]

\* The store's read(path): an error when there is no document.
collectionRead(st, path) ==
  [error |-> ~st[path].exists, frontmatter |-> st[path].fm]

\* The store's create(path, frontmatter): an error when the path is taken.
collectionCreate(st, path, fm) ==
  IF st[path].exists
    THEN [error |-> TRUE, store |-> st]
    ELSE [error |-> FALSE, store |-> [st EXCEPT ![path] = Doc(fm)]]

\* The store's update(path, fields): the given fields are written into the
\* document's frontmatter, the others stay; an error when there is none.
collectionUpdate(st, path, fields) ==
  IF ~st[path].exists
    THEN [error |-> TRUE, store |-> st]
    ELSE [error |-> FALSE,
          store |-> [st EXCEPT ![path] = Doc(Merge(st[path].fm, fields))]]

\* upsertItemFromProvider writing the frontmatter of a new sidecar over an
\* existing one as well.
upsertResetsLocal(st, item) ==
  LET path == itemPath(item.kind, resolveItemKey(item)) IN
    IF collectionRead(st, path).error
      THEN collectionCreate(st, path, createFields(item))
      ELSE collectionUpdate(st, path, createFields(item))

\* upsertItemFromProvider: create the sidecar when the read fails, else
\* update it with the remote fields.
upsertItemFromProvider(st, item) ==
  LET path == itemPath(item.kind, resolveItemKey(item)) IN
    IF collectionRead(st, path).error
      THEN collectionCreate(st, path, createFields(item))
      ELSE collectionUpdate(st, path, remoteFields(item))

\* updateItemFields: one update of the target's sidecar.
updateItemFields(st, target, fields) ==
  collectionUpdate(st, itemPath(target.kind, target.key), fields)

\* readItem: the sidecar of the target.
readItem(st, target) == collectionRead(st, itemPath(target.kind, target.key))

\* The target naming the item of Snapshots (targets.ts, --issue 123).
Target == [kind |-> "issue", key |-> "123", number |-> 123]

\* Field assignments of `ops item set`: each local field, and a mirror field.
Assignments ==
  {[local_status |-> "in_progress"], [local_status |-> "done"],
   [priority |-> "high"], [difficulty |-> "easy"], [risk |-> "low"],
   [owner |-> "bob"], [tags |-> "x"], [summary |-> "s"], [notes |-> "n"],
   [command_id |-> "triage-issue"], [sync_state |-> "dirty"],
   [last_analyzed_at |-> "t"], [remote_title |-> "edited"]}

\* `ops item ensure` (and every run with ensureSidecar): fetch, then upsert.
Ensure(item) ==
  /\ UNCHANGED notSidecarVars
  /\ Len(log) < MaxOps
  /\ LET r == upsertItemFromProvider(store, item) IN
       /\ store' = r.store
       /\ log' = Append(log, [op |-> "ensure", item |-> item,
                              fields |-> <<>>, error |-> r.error])

\* `ops item set --field k=v`.
SetFields(fields) ==
  /\ UNCHANGED notSidecarVars
  /\ Len(log) < MaxOps
  /\ LET r == updateItemFields(store, Target, fields) IN
       /\ store' = r.store
       /\ log' = Append(log, [op |-> "set", item |-> <<>>,
                              fields |-> fields, error |-> r.error])

\* An initialised store with no sidecar yet.
SidecarInit ==
  /\ store = [path \in Paths |-> NoDoc]
  /\ log = <<>>

SidecarNext ==
  \/ \E item \in Snapshots : Ensure(item)
  \/ \E fields \in Assignments : SetFields(fields)

\* Issue 123 of two repositories, on two providers, as `ops item ensure
\* --issue 123 --repo ... --provider ...` fetches it.
RepoItems ==
  [provider : {"github", "gitlab"}, kind : {"issue"}, key : {"123"},
   repo : {"o/r", "p/q"}, number : {123}, title : {"Fix bug"},
   state : {"open"}, author : {"ann"}, url : {"u"}, updatedAt : {"t"}]

\* Ensure and set operations in a checkout whose commands name either
\* repository and either provider.
RepoNext ==
  \/ \E item \in RepoItems : Ensure(item)
  \/ \E fields \in Assignments : SetFields(fields)

\* ------------------------------- run executor (executor.ts, template.ts)

\* Number of parts (placeholders and literal texts) of a command body.
MaxParts == 2

\* Largest exit code of the agent's child process.
MaxExitCode == 2

\* Context values by JavaScript type.
Undefined == [t |-> "undefined", v |-> ""]

Null == [t |-> "null", v |-> ""]

Str(x) == [t |-> "string", v |-> x]

Num(n) == [t |-> "number", v |-> ToString(n)]

\* The variables a command body may name.
CtxKeys == {"title", "name"}

\* The contexts buildContext may return, over those variables.
Contexts == [CtxKeys -> {Undefined, Null, Str(""), Str("x"), Num(0)}]

\* A literal text of the body, and a placeholder as PLACEHOLDER_RE matches
\* it: the path, and the fallback when the "|" group took part.
Lit(x) == [kind |-> "lit", text |-> x, key |-> "", hasFallback |-> FALSE,
           fallback |-> ""]

Var(k) == [kind |-> "var", text |-> "", key |-> k, hasFallback |-> FALSE,
           fallback |-> ""]

VarOr(k, f) == [kind |-> "var", text |-> "", key |-> k, hasFallback |-> TRUE,
                fallback |-> f]

Parts ==
  {Lit("Hello ")} \cup {Var(k) : k \in CtxKeys}
    \cup {VarOr(k, "anon") : k \in CtxKeys}

Bodies == UNION {[1..n -> Parts] : n \in 0..MaxParts}

\* getByPath, for the one-segment paths of CtxKeys.
getByPath(ctx, key) == IF key \in DOMAIN ctx THEN ctx[key] ELSE Undefined

\* stringifyValue, on scalars.
stringifyValue(value) ==
  IF value.t \in {"null", "undefined"} THEN "" ELSE value.v

\* The absence test taking every value that is not a non-empty string as
\* absent.
isAbsentUnlessText(value) == value.t # "string" \/ Len(value.v) = 0

\* Line 43: value === undefined || value === null || value === "".
isAbsent(value) ==
  value.t \in {"undefined", "null"} \/ (value.t = "string" /\ Len(value.v) = 0)

\* A sequence with x added unless it is there (Set.add, insertion order).
SetAdd(seq, x) ==
  IF \E i \in 1..Len(seq) : seq[i] = x THEN seq ELSE Append(seq, x)

\* renderTemplate: the replace callback run on each match in turn.
RECURSIVE renderFrom(_, _, _, _, _)
renderFrom(body, ctx, i, text, missing) ==
  IF i > Len(body)
    THEN [text |-> text, missingRequired |-> missing]
    ELSE
      LET part == body[i]
          value == getByPath(ctx, part.key) IN
        IF part.kind = "lit"
          THEN renderFrom(body, ctx, i + 1, text \o part.text, missing)
          ELSE IF isAbsent(value)
            THEN IF part.hasFallback
              THEN renderFrom(body, ctx, i + 1, text \o part.fallback, missing)
              ELSE renderFrom(body, ctx, i + 1, text,
                              SetAdd(missing, part.key))
            ELSE renderFrom(body, ctx, i + 1,
                            text \o stringifyValue(value), missing)

renderTemplate(body, ctx) == renderFrom(body, ctx, 1, "", <<>>)

\* Settings of a run mode at one level of the precedence.
ModeSettings == {"undefined", "interactive", "non-interactive"}

\* Line 85: input.mode ?? fm.default_mode ?? defaults.mode ?? "interactive".
resolveMode(in) ==
  Coalesce(in.mode, Coalesce(in.fmMode, Coalesce(in.defaultMode,
                                                 "interactive")))

\* executeRun's guard turned into one that lets a single missing variable by.
hasMissingMoreThanOne(missing) == Len(missing) > 1

\* Line 77: prepared.missingRequired.length > 0.
hasMissing(missing) == Len(missing) > 0

\* How a child process can end: with an exit code, killed by a signal
\* (the close event's code is null), or not started (the error event).
ChildEnds ==
  [kind : {"exit"}, code : 0..MaxExitCode]
    \cup {[kind |-> "killed", code |-> 0], [kind |-> "error", code |-> 0]}

NoChild == [kind |-> "none", code |-> 0]

\* process.ts: resolve(code ?? 1) on close, reject on error.
exitCodeOf(end) == IF end.kind = "killed" THEN 1 ELSE end.code

\* runAgent treating a failed agent as an error.
runAgentThrowsOnFailure(mode, end) ==
  IF end.kind = "error" \/ exitCodeOf(end) # 0
    THEN [threw |-> TRUE, exitCode |-> 0]
    ELSE [threw |-> FALSE, exitCode |-> 0]

\* runAgent: execInteractive or execCapture by mode; both give the child's
\* exit code, and throw only when the child could not be started.
runAgent(mode, end) ==
  IF end.kind = "error"
    THEN [threw |-> TRUE, exitCode |-> 0]
    ELSE [threw |-> FALSE, exitCode |-> exitCodeOf(end)]

NoResult == [status |-> "none", exitCode |-> 0, error |-> "", names |-> <<>>,
             prompt |-> "", mode |-> ""]

Threw(e, names) == [status |-> "threw", exitCode |-> 0, error |-> e,
                    names |-> names, prompt |-> "", mode |-> ""]

Returned(code, prompt, mode) ==
  [status |-> "returned", exitCode |-> code, error |-> "", names |-> <<>>,
   prompt |-> prompt, mode |-> mode]

NotPrepared == [ok |-> FALSE, renderedPrompt |-> "", missingRequired |-> <<>>]

NoAgentInput == [prompt |-> "", mode |-> ""]

\* Line 76: prepareRun. The command lookup or the context build may fail;
\* otherwise the body is rendered against the context.
Prepare ==
  /\ UNCHANGED notRunVars
  /\ rpc = "start"
  /\ \E outcome \in {"ok", "CommandNotFound", "ProviderRequestFailed"} :
       IF outcome = "ok"
         THEN LET r == renderTemplate(input.body, input.context) IN
                /\ prepared' = [ok |-> TRUE, renderedPrompt |-> r.text,
                                missingRequired |-> r.missingRequired]
                /\ rpc' = "prepared"
                /\ UNCHANGED result
         ELSE /\ result' = Threw(outcome, <<>>)
              /\ rpc' = "done"
              /\ UNCHANGED prepared
  /\ UNCHANGED <<input, agentCalls, agentInput, child>>

\* What `ops run --dry-run` printed.
Printed(prompt) ==
  [status |-> "printed", exitCode |-> 0, error |-> "", names |-> <<>>,
   prompt |-> prompt, mode |-> ""]

\* The dry-run branch without its return: the command goes on to execute.
dryRunFallsThrough(p) == [next |-> "agent", result |-> NoResult]

\* run.ts lines 211-222: the missing-variables guard of the dry-run branch,
\* then the prompt printed and the callback left.
dryRun(p) ==
  IF hasMissing(p.missingRequired)
    THEN [next |-> "done",
          result |-> Threw("MissingVariables", p.missingRequired)]
    ELSE [next |-> "done", result |-> Printed(p.renderedPrompt)]

\* run.ts lines 200-224: `ops run --dry-run` after its prepareRun.
DryRun ==
  /\ UNCHANGED notRunVars
  /\ rpc = "prepared"
  /\ input.dryRun
  /\ rpc' = dryRun(prepared).next
  /\ result' = dryRun(prepared).result
  /\ UNCHANGED <<input, prepared, agentCalls, agentInput, child>>

\* Lines 77-86: the missing-variables guard, then the effective mode.
CheckMissing ==
  /\ UNCHANGED notRunVars
  /\ rpc = "prepared"
  /\ ~input.dryRun
  /\ IF hasMissing(prepared.missingRequired)
       THEN /\ result' = Threw("MissingVariables", prepared.missingRequired)
            /\ rpc' = "done"
       ELSE /\ rpc' = "agent"
            /\ UNCHANGED result
  /\ UNCHANGED <<input, prepared, agentCalls, agentInput, child>>

\* Lines 88-106: the one runAgent call and the result built from it.
RunAgent ==
  /\ UNCHANGED notRunVars
  /\ rpc = "agent"
  /\ \E end \in ChildEnds :
       LET mode == resolveMode(input)
           r == runAgent(mode, end) IN
         /\ child' = end
         /\ agentCalls' = agentCalls + 1
         /\ agentInput' = [prompt |-> prepared.renderedPrompt, mode |-> mode]
         /\ result' = IF r.threw
                        THEN Threw("SpawnFailed", <<>>)
                        ELSE Returned(r.exitCode, prepared.renderedPrompt,
                                      mode)
  /\ rpc' = "done"
  /\ UNCHANGED <<input, prepared>>

\* One `ops run`, with or without --dry-run, on some command body, context
\* and mode settings.
RunInit ==
  /\ rpc = "start"
  /\ input \in [body : Bodies, context : Contexts,
                mode : ModeSettings,
                fmMode : {"undefined", "non-interactive"},
                defaultMode : {"undefined", "interactive"},
                dryRun : BOOLEAN]
  /\ prepared = NotPrepared
  /\ agentCalls = 0
  /\ agentInput = NoAgentInput
  /\ child = NoChild
  /\ result = NoResult

\* No executeRun call.
RunIdle ==
  /\ rpc = "done"
  /\ input = [body |-> <<>>, context |-> [k \in CtxKeys |-> Undefined],
              mode |-> "undefined", fmMode |-> "undefined",
              defaultMode |-> "undefined", dryRun |-> FALSE]
  /\ prepared = NotPrepared
  /\ agentCalls = 0
  /\ agentInput = NoAgentInput
  /\ child = NoChild
  /\ result = NoResult

RunNext == Prepare \/ DryRun \/ CheckMissing \/ RunAgent

\* ------------------------------------------------ text (String.trim)

\* Texts whose characters matter are sequences of one-character strings.
Whitespace == {" ", "\t", "\n"}

RECURSIVE trimStart(_)
trimStart(cs) ==
  IF cs # <<>> /\ Head(cs) \in Whitespace THEN trimStart(Tail(cs)) ELSE cs

RECURSIVE trimEnd(_)
trimEnd(cs) ==
  IF cs # <<>> /\ cs[Len(cs)] \in Whitespace
    THEN trimEnd(SubSeq(cs, 1, Len(cs) - 1))
    ELSE cs

\* String.prototype.trim
trim(cs) == trimEnd(trimStart(cs))

\* ------------------------------------- ops issue address (commands/issue.ts)

\* Frontmatter values of the analysis fields: none, a text, or a non-text.
NoValue == [t |-> "undefined", v |-> <<>>]

Text(cs) == [t |-> "string", v |-> cs]

NonText == [t |-> "number", v |-> <<"3">>]

TriageFields == {"summary", "priority", "difficulty", "risk"}

AnalysisValues == {NoValue, Text(<<" ">>), Text(<<"x">>), NonText}

\* Lines 63-65.
hasNonEmptyString(value) == value.t = "string" /\ Len(trim(value.v)) > 0

\* Lines 67-74.
hasTriageAnalysis(frontmatter) ==
  /\ hasNonEmptyString(frontmatter["summary"])
  /\ hasNonEmptyString(frontmatter["priority"])
  /\ hasNonEmptyString(frontmatter["difficulty"])
  /\ hasNonEmptyString(frontmatter["risk"])

\* What an agent run may do to the analysis fields of the sidecar: nothing,
\* fill them all in, or fill in the summary only.
AgentWrites(fm) ==
  {fm,
   [f \in TriageFields |-> Text(<<"x">>)],
   [fm EXCEPT !["summary"] = Text(<<"x">>)]}

\* What an executeRun call can come to: a throw before the agent is called
\* (CheckMissing, Prepare), or the agent called once and runAgent's result.
ExecuteRunOutcomes ==
  {[threw |-> TRUE, invoked |-> FALSE, exitCode |-> 0]}
    \cup {[threw |-> runAgent("non-interactive", end).threw,
           invoked |-> TRUE,
           exitCode |-> runAgent("non-interactive", end).exitCode] :
            end \in ChildEnds}

NoOutcome == [threw |-> FALSE, invoked |-> FALSE, exitCode |-> -1]

\* The triage step going on to the address run whatever the exit code.
afterTriageIgnoresExit(out) ==
  IF out.threw THEN [next |-> "exited", exit |-> 1]
  ELSE [next |-> "address", exit |-> -1]

\* Lines 161-172 and the catch of 234-237: where the command goes after the
\* triage run.
afterTriage(out) ==
  IF out.threw THEN [next |-> "exited", exit |-> 1]
  ELSE IF out.exitCode # 0 THEN [next |-> "exited", exit |-> out.exitCode]
  ELSE [next |-> "address", exit |-> -1]

\* Lines 129-130: fetch the issue and upsert its sidecar; either may throw.
IssueEnsure ==
  /\ UNCHANGED notIssueVars
  /\ ipc = "ensure"
  /\ \E ok \in BOOLEAN :
       IF ok THEN ipc' = "gate" /\ UNCHANGED iexit
             ELSE ipc' = "exited" /\ iexit' = 1
  /\ UNCHANGED <<iopts, analysis, shouldRunTriage, agents, addressSaw,
                 triageResult>>

\* Lines 132-134: read the sidecar and decide whether triage runs.
IssueGate ==
  /\ UNCHANGED notIssueVars
  /\ ipc = "gate"
  /\ LET triageMissing == ~hasTriageAnalysis(analysis) IN
       shouldRunTriage' =
         (iopts.forceTriage \/ (~iopts.skipTriage /\ triageMissing))
  /\ ipc' = IF shouldRunTriage' THEN "triage" ELSE "address"
  /\ UNCHANGED <<iopts, analysis, agents, addressSaw, triageResult, iexit>>

\* Lines 138-182: the triage run.
IssueTriage ==
  /\ UNCHANGED notIssueVars
  /\ ipc = "triage"
  /\ \E out \in ExecuteRunOutcomes :
       /\ triageResult' = out
       /\ IF out.invoked
            THEN /\ agents' = Append(agents, "triage")
                 /\ analysis' \in AgentWrites(analysis)
            ELSE UNCHANGED <<agents, analysis>>
       /\ ipc' = afterTriage(out).next
       /\ iexit' = afterTriage(out).exit
  /\ UNCHANGED <<iopts, shouldRunTriage, addressSaw>>

\* Lines 184-232: the address run, and the exit on its exit code.
IssueAddress ==
  /\ UNCHANGED notIssueVars
  /\ ipc = "address"
  /\ \E out \in ExecuteRunOutcomes :
       /\ IF out.invoked
            THEN /\ agents' = Append(agents, "address")
                 /\ addressSaw' = analysis
                 /\ analysis' \in AgentWrites(analysis)
            ELSE UNCHANGED <<agents, addressSaw, analysis>>
       /\ iexit' = IF out.threw THEN 1 ELSE out.exitCode
  /\ ipc' = "exited"
  /\ UNCHANGED <<iopts, shouldRunTriage, triageResult>>

\* `ops issue address` started with some options on some sidecar.
IssueInit ==
  /\ ipc = "ensure"
  /\ iopts \in [skipTriage : BOOLEAN, forceTriage : BOOLEAN]
  /\ analysis \in [TriageFields -> AnalysisValues]
  /\ shouldRunTriage = FALSE
  /\ agents = <<>>
  /\ addressSaw = [f \in TriageFields |-> NoValue]
  /\ triageResult = NoOutcome
  /\ iexit = -1

\* No `ops issue address`.
IssueIdle ==
  /\ ipc = "exited"
  /\ iopts = [skipTriage |-> FALSE, forceTriage |-> FALSE]
  /\ analysis = [f \in TriageFields |-> NoValue]
  /\ shouldRunTriage = FALSE
  /\ agents = <<>>
  /\ addressSaw = [f \in TriageFields |-> NoValue]
  /\ triageResult = NoOutcome
  /\ iexit = 0

IssueNext == IssueEnsure \/ IssueGate \/ IssueTriage \/ IssueAddress

\* ------------------------- execution parameters (executor.ts lines 83-98)

\* The parameters executeRun resolves for the agent.
Params == {"mode", "cli", "model", "permissionMode", "allowedTools",
           "sandboxMode", "approvalPolicy"}

\* What one level (call-site override, frontmatter, defaults) may hold for
\* a parameter: nothing, null, or a value (the empty string is a value).
SettingValues == {"undefined", "null", "", "a", "b", "c"}

\* Line 86: input.cli ?? fm.cli_type ?? defaults.cli ?? "claude".
resolveCli(s) ==
  Coalesce(s.input, Coalesce(s.fm, Coalesce(s.defaults, "claude")))

\* A parameter resolved with the frontmatter ahead of the call site.
resolveOptionalFrontmatterFirst(s) ==
  Coalesce(s.fm, Coalesce(s.input, s.defaults))

\* Lines 93-97: input.x ?? fm.x ?? defaults.x.
resolveOptional(s) == Coalesce(s.input, Coalesce(s.fm, s.defaults))

\* Lines 88-98: the value runAgent is given for a parameter.
agentParam(param, s) ==
  CASE param = "mode" ->
         resolveMode([mode |-> s.input, fmMode |-> s.fm,
                      defaultMode |-> s.defaults])
    [] param = "cli" -> resolveCli(s)
    [] OTHER -> resolveOptional(s)

\* executeRun resolving one parameter for runAgent.
ResolveParam ==
  /\ UNCHANGED notParamVars
  /\ ppc = "start"
  /\ passed' = agentParam(setting.param, setting)
  /\ ppc' = "done"
  /\ UNCHANGED setting

ParamInit ==
  /\ ppc = "start"
  /\ setting \in [param : Params, input : SettingValues, fm : SettingValues,
                  defaults : SettingValues]
  /\ passed = "undefined"

ParamIdle ==
  /\ ppc = "done"
  /\ setting = [param |-> "mode", input |-> "undefined", fm |-> "undefined",
                defaults |-> "undefined"]
  /\ passed = "undefined"

ParamNext == ResolveParam

\* ------------------------------------- buildContext (context-builder.ts)

\* A key the context does not have (distinct from a key set to undefined).
Missing == [t |-> "missing", v |-> ""]

\* The variables --var may set here, and the values it gives them; a --var
\* value is always a string, possibly empty (parseKeyValuePairs, coerce off).
ExplicitKeys == {"repo", "priority", "item_ref", "now_iso", "note"}

ExplicitVarSets ==
  UNION {[ks -> {Str(""), Str("v")}] : ks \in SUBSET ExplicitKeys}

\* What new Date().toISOString() may give.
Times == {"2026-01-01T00:00:00.000Z"}

\* Lines 185-188.
BaseKeys == {"repo_root", "ops_root"}

\* The keys of lines 227-247 kept here (body, labels, assignees and the
\* refs of a PR are assigned the same way and left out).
ProviderKeys == {"provider", "kind", "number", "key", "repo", "title",
                 "author", "state", "url", "source_path", "item_ref"}

\* Lines 227-247: the value Object.assign gives each of those keys.
providerValue(item, k) ==
  CASE k = "provider" -> Str(item.provider)
    [] k = "kind" -> Str(item.kind)
    [] k = "number" -> Num(item.number)
    [] k = "key" -> Str(item.key)
    [] k = "repo" -> Str(item.repo)
    [] k = "title" -> Str(item.title)
    [] k = "author" -> Str(item.author)
    [] k = "state" -> Str(item.state)
    [] k = "url" -> Str(item.url)
    [] k = "source_path" -> Undefined
    [] k = "item_ref" -> Str(providerItemRef(item))

\* A frontmatter value as a context value.
fmValue(k, v) == IF k = "number" THEN Num(v) ELSE Str(v)

\* The fields a sidecar's frontmatter may have (item_state is strict).
SidecarKeys ==
  {"id", "provider", "kind", "key", "external_ref", "repo", "number",
   "remote_state", "remote_title", "remote_author", "remote_url",
   "remote_updated_at", "last_seen_remote_updated_at"} \cup LocalFields

\* Lines 281-284.
SidecarPathKeys == {"sidecar_path", "ops_item_path"}

ContextKeys ==
  BaseKeys \cup ProviderKeys \cup SidecarKeys \cup SidecarPathKeys
    \cup ExplicitKeys

NoTarget == [provider |-> "none"]

\* The stores a run may find: no sidecar, or the sidecar of an earlier
\* ensure, made when the repository had another name, with a priority set.
ContextStores ==
  {[path \in Paths |-> NoDoc]}
    \cup {[path \in Paths |->
             Doc(Merge(createFields([i EXCEPT !.repo = "old/r"]),
                       [priority |-> "high"]))] : i \in Snapshots}

\* Lines 208-215: upsert if asked, then tryReadSidecar.
sidecarRead(in) ==
  LET st == IF in.ensureSidecar
              THEN upsertItemFromProvider(in.store, in.item).store
              ELSE in.store
  IN readItem(st, [kind |-> in.item.kind, key |-> in.item.key,
                   number |-> in.item.number])

\* Lines 185-277: the base keys and, with a target, the provider's fields.
providerContext(in) ==
  [k \in ContextKeys |->
     IF k = "repo_root" THEN Str("/repo")
     ELSE IF k = "ops_root" THEN Str("/repo/.ops")
     ELSE IF in.item # NoTarget /\ k \in ProviderKeys
       THEN providerValue(in.item, k)
       ELSE Missing]

\* The sidecar's frontmatter written over whatever the context has.
sidecarOverwrites(ctx, sc) ==
  [k \in ContextKeys |->
     IF k \in SidecarPathKeys THEN Str("items/issue-123.md")
     ELSE IF k \in DOMAIN sc.frontmatter
       THEN fmValue(k, sc.frontmatter[k])
       ELSE ctx[k]]

\* Lines 279-290: the sidecar's path keys, and the frontmatter's fields for
\* the keys the context does not have yet.
sidecarFills(ctx, sc) ==
  [k \in ContextKeys |->
     IF k \in SidecarPathKeys THEN Str("items/issue-123.md")
     ELSE IF k \in DOMAIN sc.frontmatter /\ ctx[k] = Missing
       THEN fmValue(k, sc.frontmatter[k])
       ELSE ctx[k]]

\* Lines 292-295.
explicitOverrides(ctx, explicitVars) ==
  [k \in ContextKeys |->
     IF k \in DOMAIN explicitVars THEN explicitVars[k] ELSE ctx[k]]

\* !context.item_ref
isFalsy(value) ==
  \/ value.t \in {"missing", "undefined", "null"}
  \/ (value.t = "string" /\ value.v = "")
  \/ (value.t = "number" /\ value.v = "0")

\* Lines 297-306.
synthItemRef(ctx) ==
  IF ~isFalsy(ctx["item_ref"]) THEN ctx
  ELSE IF ctx["repo"].t = "string" /\ ctx["number"].t = "number"
    THEN LET kind == IF ctx["kind"].t = "string" THEN ctx["kind"].v
                     ELSE "issue"
         IN [ctx EXCEPT !["item_ref"] =
               Str(ctx["repo"].v
                   \o (IF kind = "pr" THEN "#PR" ELSE "#")
                   \o ctx["number"].v)]
  ELSE IF ctx["source_path"].t = "string"
    THEN [ctx EXCEPT !["item_ref"] = ctx["source_path"]]
  ELSE IF ctx["key"].t = "string"
    THEN [ctx EXCEPT !["item_ref"] = ctx["key"]]
  ELSE ctx

\* buildContext, lines 183-310.
buildContext(in, now) ==
  LET c1 == providerContext(in)
      sc == IF in.item = NoTarget
              THEN [error |-> TRUE, frontmatter |-> <<>>]
              ELSE sidecarRead(in)
      c2 == IF sc.error THEN c1 ELSE sidecarFills(c1, sc)
      c3 == explicitOverrides(c2, in.explicitVars)
      c4 == synthItemRef(c3)
  IN [c4 EXCEPT !["now_iso"] = Str(now)]

\* What a failing provider fetch throws (providers/index.ts line 18, or the
\* adapter's request).
FetchErrors == {"UnknownProvider", "ProviderRequestFailed"}

NoError == "none"

\* Lines 208-210: the collection after the call, once the fetch returned.
storeAfter(in) ==
  IF in.item # NoTarget /\ in.ensureSidecar
    THEN upsertItemFromProvider(in.store, in.item).store
    ELSE in.store

\* The upsert of line 209 reached although the fetch threw.
fetchFailedAfterUpsert(in, e) ==
  [store |-> storeAfter(in), fetched |-> e, error |-> e]

\* Lines 193-206: the fetch threw error e; nothing catches it, and the
\* upsert of line 209 is not reached.
fetchFailed(in, e) == [store |-> in.store, fetched |-> e, error |-> e]

\* One buildContext call; the provider fetch of lines 193-206 may throw.
BuildContext ==
  /\ UNCHANGED notContextVars
  /\ cpc = "start"
  /\ \/ /\ \E now \in Times : context' = buildContext(binput, now)
        /\ bresult' = [store |-> storeAfter(binput), fetched |-> NoError,
                       error |-> NoError]
        /\ cpc' = "done"
     \/ /\ binput.item # NoTarget
        /\ \E e \in FetchErrors : bresult' = fetchFailed(binput, e)
        /\ cpc' = "failed"
        /\ UNCHANGED context
  /\ UNCHANGED binput

ContextInit ==
  /\ cpc = "start"
  /\ \E item \in Snapshots \cup {NoTarget} :
       \E st \in ContextStores :
         \E ensure \in BOOLEAN :
           \E ev \in ExplicitVarSets :
             /\ (item = NoTarget =>
                   st = [path \in Paths |-> NoDoc] /\ ~ensure)
             /\ binput = [item |-> item, store |-> st,
                          ensureSidecar |-> ensure, explicitVars |-> ev]
  /\ context = [k \in ContextKeys |-> Missing]
  /\ bresult = [store |-> binput.store, fetched |-> NoError,
                error |-> NoError]

ContextIdle ==
  /\ cpc = "done"
  /\ binput = [item |-> NoTarget, store |-> [path \in Paths |-> NoDoc],
               ensureSidecar |-> FALSE, explicitVars |-> <<>>]
  /\ context = [k \in ContextKeys |-> Missing]
  /\ bresult = [store |-> [path \in Paths |-> NoDoc], fetched |-> NoError,
                error |-> NoError]

ContextNext == BuildContext

\* ----------------------------------- template text (template.ts, chars)

\* Spaces allowed around the parts of a placeholder in the templates tried.
MaxPad == 1

\* Characters of the class [a-zA-Z0-9_.-] that the templates tried use.
KeyChars == {"a", "b", "p", "f", "0", "_", "-", "."}

Spaces(n) == [i \in 1..n |-> " "]

\* The text of a sequence of characters, as one string.
RECURSIVE Join(_)
Join(cs) == IF cs = <<>> THEN "" ELSE Head(cs) \o Join(Tail(cs))

\* The end of the longest run of characters of a set starting at i.
RECURSIVE runEnd(_, _, _)
runEnd(cs, i, set) ==
  IF i <= Len(cs) /\ cs[i] \in set THEN runEnd(cs, i + 1, set) ELSE i

\* The end of the longest run of characters other than "}" starting at i.
RECURSIVE notBraceEnd(_, _)
notBraceEnd(cs, i) ==
  IF i <= Len(cs) /\ cs[i] # "}" THEN notBraceEnd(cs, i + 1) ELSE i

isAt(cs, i, a, b) == i + 1 <= Len(cs) /\ cs[i] = a /\ cs[i + 1] = b

NoMatch == [ok |-> FALSE, key |-> <<>>, hasFallback |-> FALSE,
            fallbackRaw |-> <<>>, next |-> 0]

\* PLACEHOLDER_RE tried at position i:
\* \{\{ \s* ([a-zA-Z0-9_.-]+) (?: \| ([^}]*) )? \s* \}\}
matchAt(cs, i) ==
  IF ~isAt(cs, i, "{", "{") THEN NoMatch
  ELSE
    LET k0 == runEnd(cs, i + 2, Whitespace)
        k1 == runEnd(cs, k0, KeyChars)
        piped == k1 <= Len(cs) /\ cs[k1] = "|"
        f1 == IF piped THEN notBraceEnd(cs, k1 + 1) ELSE k1
        e0 == IF piped THEN f1 ELSE runEnd(cs, k1, Whitespace)
    IN IF k1 > k0 /\ isAt(cs, e0, "}", "}")
         THEN [ok |-> TRUE, key |-> SubSeq(cs, k0, k1 - 1),
               hasFallback |-> piped,
               fallbackRaw |-> IF piped THEN SubSeq(cs, k1 + 1, f1 - 1)
                               ELSE <<>>,
               next |-> e0 + 2]
         ELSE NoMatch

\* key.split(".")
RECURSIVE splitDots(_, _, _)
splitDots(cs, i, seg) ==
  IF i > Len(cs) THEN <<seg>>
  ELSE IF cs[i] = "." THEN <<seg>> \o splitDots(cs, i + 1, <<>>)
  ELSE splitDots(cs, i + 1, Append(seg, cs[i]))

\* Context values whose string form is a sequence of characters.
NullValue == [t |-> "null", v |-> <<>>]

Zero == [t |-> "number", v |-> <<"0">>]

False == [t |-> "boolean", v |-> <<"f", "a", "l", "s", "e">>]

Object(o) == [t |-> "object", v |-> <<>>, o |-> o]

\* Lines 5-15: getByPath over the segments of a dotted path.
RECURSIVE getBySegments(_, _, _)
getBySegments(current, segs, i) ==
  IF i > Len(segs) THEN current
  ELSE IF current.t # "object" \/ Join(segs[i]) \notin DOMAIN current.o
    THEN NoValue
    ELSE getBySegments(current.o[Join(segs[i])], segs, i + 1)

getByDottedPath(ctx, key) == getBySegments(ctx, splitDots(key, 1, <<>>), 1)

\* stringifyValue on scalars: "" for null and undefined, else String(value).
stringifyChars(value) ==
  IF value.t \in {"null", "undefined"} THEN <<>> ELSE value.v

\* Lines 37-49: the text one match is replaced by, and the path recorded.
replaceMatch(m, ctx) ==
  LET key == trim(m.key)
      value == getByDottedPath(ctx, key)
  IN IF isAbsent(value)
       THEN IF m.hasFallback
              THEN [text |-> trim(m.fallbackRaw), missing |-> <<>>]
              ELSE [text |-> <<>>, missing |-> <<Join(key)>>]
       ELSE [text |-> stringifyChars(value), missing |-> <<>>]

\* template.replace(PLACEHOLDER_RE, ...): matches are taken left to right,
\* the characters between them are kept.
RECURSIVE renderChars(_, _, _, _, _)
renderChars(cs, ctx, i, text, missing) ==
  IF i > Len(cs) THEN [text |-> text, missingRequired |-> missing]
  ELSE
    LET m == matchAt(cs, i) IN
      IF m.ok
        THEN LET r == replaceMatch(m, ctx) IN
               renderChars(cs, ctx, m.next, text \o r.text,
                           IF r.missing = <<>> THEN missing
                           ELSE SetAdd(missing, r.missing[1]))
        ELSE renderChars(cs, ctx, i + 1, Append(text, cs[i]), missing)

\* Lines 24-31: the keys PLACEHOLDER_RE.exec finds, each once.
RECURSIVE extractFrom(_, _, _)
extractFrom(cs, i, found) ==
  IF i > Len(cs) THEN found
  ELSE LET m == matchAt(cs, i) IN
         IF m.ok THEN extractFrom(cs, m.next, SetAdd(found, Join(m.key)))
         ELSE extractFrom(cs, i + 1, found)

extractPlaceholders(cs) == extractFrom(cs, 1, <<>>)

\* A template with one placeholder, written with some spacing.
templateText(f) ==
  f.prefix \o <<"{", "{">> \o Spaces(f.pad1) \o f.key \o Spaces(f.pad2)
    \o (IF f.hasFallback
          THEN <<"|">> \o Spaces(f.pad3) \o f.fallback \o Spaces(f.pad4)
          ELSE <<>>)
    \o f.close

\* The same placeholder with no whitespace inside the braces.
tight(f) == [f EXCEPT !.pad1 = 0, !.pad2 = 0, !.pad3 = 0, !.pad4 = 0]

Forms ==
  {f \in [prefix : {<<>>, <<"H", "i", " ">>},
          key : {<<"p">>, <<"a", ".", "b">>},
          hasFallback : BOOLEAN,
          fallback : {<<>>, <<"f">>},
          pad1 : 0..MaxPad, pad2 : 0..MaxPad,
          pad3 : 0..MaxPad, pad4 : 0..MaxPad,
          close : {<<"}", "}">>, <<"}">>}] :
     ~f.hasFallback => (f.fallback = <<>> /\ f.pad3 = 0 /\ f.pad4 = 0)}

ScalarValues == {NoValue, NullValue, Text(<<>>), Text(<<"x">>), Zero, False}

\* Contexts: p is a scalar; a is missing, a scalar, or an object with b.
TemplateContexts ==
  {Object([k \in {"p", "a"} |-> IF k = "p" THEN pv ELSE av]) :
     pv \in {NoValue, Text(<<"x">>)},
     av \in {NoValue, Text(<<"x">>)}
              \cup {Object([k \in {"b"} |-> bv]) : bv \in ScalarValues}}
    \cup {Object([k \in {"p"} |-> pv]) : pv \in ScalarValues}

\* renderTemplate and extractPlaceholders on the template of a form.
RenderText ==
  /\ UNCHANGED notTemplateVars
  /\ tpc = "start"
  /\ rendered' = renderChars(templateText(form), tctx, 1, <<>>, <<>>)
  /\ renderedTight' =
       renderChars(templateText(tight(form)), tctx, 1, <<>>, <<>>)
  /\ extracted' = extractPlaceholders(templateText(form))
  /\ tpc' = "done"
  /\ UNCHANGED <<form, tctx>>

NothingRendered == [text |-> <<>>, missingRequired |-> <<>>]

TemplateInit ==
  /\ tpc = "start"
  /\ form \in Forms
  /\ tctx \in TemplateContexts
  /\ rendered = NothingRendered
  /\ renderedTight = NothingRendered
  /\ extracted = <<>>

TemplateIdle ==
  /\ tpc = "done"
  /\ form = [prefix |-> <<>>, key |-> <<"p">>, hasFallback |-> FALSE,
             fallback |-> <<>>, pad1 |-> 0, pad2 |-> 0, pad3 |-> 0,
             pad4 |-> 0, close |-> <<"}", "}">>]
  /\ tctx = Object([k \in {"p"} |-> NoValue])
  /\ rendered = NothingRendered
  /\ renderedTight = NothingRendered
  /\ extracted = <<>>

TemplateNext == RenderText

\* ------------------------------------------- parseKeyValuePairs (parse.ts)

\* Number of key=value arguments in one call.
MaxPairs == 2

PairChars == {"k", "=", " ", "4"}

\* The arguments tried: every text of up to two of those characters, and
\* some longer ones.
PairTexts ==
  UNION {[1..n -> PairChars] : n \in 0..2}
    \cup {<<"k", "=", "4", "=", "4">>, <<" ", "k", " ", "=", " ", "4", " ">>,
          <<"n", "=", "4", "2">>, <<"n", "=", "-", "4">>,
          <<"n", "=", " ", "4", "2", " ">>, <<"n", "=", "4", "k">>,
          <<"b", "=", "t", "r", "u", "e">>, <<"b", "=", "f", "a", "l", "s", "e">>,
          <<"x", "=", "n", "u", "l", "l">>, <<"n", "o", "e", "q">>,
          <<" ", " ", "=", "4">>}

\* pair.indexOf(c): the 0-based position of the first c, -1 when none.
RECURSIVE indexFrom(_, _, _)
indexFrom(cs, c, i) ==
  IF i > Len(cs) THEN -1
  ELSE IF cs[i] = c THEN i - 1
  ELSE indexFrom(cs, c, i + 1)

indexOf(cs, c) == indexFrom(cs, c, 1)

\* pair.slice(start, end) and pair.slice(start), 0-based, end excluded.
slice(cs, start, end) == SubSeq(cs, start + 1, end)

sliceFrom(cs, start) == SubSeq(cs, start + 1, Len(cs))

Digits == {"0", "1", "2", "3", "4", "5", "6", "7", "8", "9"}

DigitValue(c) ==
  CASE c = "0" -> 0 [] c = "1" -> 1 [] c = "2" -> 2 [] c = "3" -> 3
    [] c = "4" -> 4 [] c = "5" -> 5 [] c = "6" -> 6 [] c = "7" -> 7
    [] c = "8" -> 8 [] c = "9" -> 9

\* /^-?\d+$/
isInteger(cs) ==
  LET ds == IF cs # <<>> /\ Head(cs) = "-" THEN Tail(cs) ELSE cs IN
    ds # <<>> /\ \A i \in 1..Len(ds) : ds[i] \in Digits

RECURSIVE digitsValue(_, _)
digitsValue(ds, acc) ==
  IF ds = <<>> THEN acc
  ELSE digitsValue(Tail(ds), 10 * acc + DigitValue(Head(ds)))

\* Number.parseInt(value, 10) on a text of that shape.
parseInt(cs) ==
  IF Head(cs) = "-" THEN 0 - digitsValue(Tail(cs), 0)
  ELSE digitsValue(cs, 0)

Number(n) == [t |-> "number", v |-> <<>>, n |-> n]

True == [t |-> "boolean", v |-> <<"t", "r", "u", "e">>]

\* parseValue, lines 1-27, on texts with no "." and no bracket or brace (the
\* float and JSON branches are not taken by the arguments tried).
parseValue(raw) ==
  LET value == trim(raw) IN
    IF value = <<"t", "r", "u", "e">> THEN True
    ELSE IF value = <<"f", "a", "l", "s", "e">> THEN False
    ELSE IF value = <<"n", "u", "l", "l">> THEN NullValue
    ELSE IF isInteger(value) THEN Number(parseInt(value))
    ELSE Text(raw)

\* The value taken as the piece between the first "=" and the next one.
valueUpToNextEquals(pair, idx) ==
  LET rest == sliceFrom(pair, idx + 1)
      nxt == indexOf(rest, "=")
  IN IF nxt = -1 THEN rest ELSE slice(rest, 0, nxt)

\* Line 44: pair.slice(idx + 1).
pairValue(pair, idx) == sliceFrom(pair, idx + 1)

NoMapping == <<>>

\* Lines 37-50: the loop over the pairs from the i-th on.
RECURSIVE parseFrom(_, _, _, _)
parseFrom(ps, coerce, i, mapping) ==
  IF i > Len(ps) THEN [threw |-> FALSE, error |-> "", result |-> mapping]
  ELSE
    LET pair == ps[i]
        idx == indexOf(pair, "=")
        key == trim(slice(pair, 0, idx))
        value == pairValue(pair, idx)
    IN IF idx = -1
         THEN [threw |-> TRUE, error |-> "InvalidPair", result |-> NoMapping]
       ELSE IF key = <<>>
         THEN [threw |-> TRUE, error |-> "InvalidKey", result |-> NoMapping]
       ELSE parseFrom(ps, coerce, i + 1,
              [k \in DOMAIN mapping \cup {Join(key)} |->
                 IF k = Join(key)
                   THEN IF coerce THEN parseValue(value) ELSE Text(value)
                   ELSE mapping[k]])

parseKeyValuePairs(ps, coerce) == parseFrom(ps, coerce, 1, <<>>)

NotParsed == [threw |-> FALSE, error |-> "none yet", result |-> NoMapping]

ParsePairs ==
  /\ UNCHANGED notParseVars
  /\ qpc = "start"
  /\ parsed' = parseKeyValuePairs(pairs, coerceFlag)
  /\ qpc' = "done"
  /\ UNCHANGED <<pairs, coerceFlag>>

ParseInit ==
  /\ qpc = "start"
  /\ pairs \in UNION {[1..n -> PairTexts] : n \in 0..MaxPairs}
  /\ coerceFlag \in BOOLEAN
  /\ parsed = NotParsed

ParseIdle ==
  /\ qpc = "done"
  /\ pairs = <<>>
  /\ coerceFlag = FALSE
  /\ parsed = NotParsed

ParseNext == ParsePairs

\* ------------------------------------------------- itemPath (paths.ts)

\* Longest key tried.
MaxKeyLen == 3

\* Characters of the keys tried: a digit, a letter in both cases, and two
\* characters outside [a-z0-9].
KeyAlphabet == {"5", "a", "A", "-", " "}

\* The keys callers pass: non-empty and already trimmed (resolveItemKey
\* trims item.key, parseTargetOptions trims --task and prints the number
\* of --issue and --pr).
ItemKeys ==
  {key \in UNION {[1..n -> KeyAlphabet] : n \in 1..MaxKeyLen} :
     trim(key) = key}

ItemKinds == {"issue", "task"}

\* The UTF-8 byte of a character of KeyAlphabet.
charCode(c) ==
  CASE c = "5" -> 53 [] c = "a" -> 97 [] c = "A" -> 65 [] c = "-" -> 45
    [] c = " " -> 32

\* String.prototype.toLowerCase, on one character.
toLowerCase(c) == IF c = "A" THEN "a" ELSE c

\* The class [a-z0-9].
SlugChars ==
  Digits \cup {"a", "b", "c", "d", "e", "f", "g", "h", "i", "j", "k", "l", "m",
               "n", "o", "p", "q", "r", "s", "t", "u", "v", "w", "x", "y", "z"}

\* Line 40: .replace(/[^a-z0-9]+/g, "-"), each run becoming one "-".
RECURSIVE replaceRuns(_, _)
replaceRuns(cs, inRun) ==
  IF cs = <<>> THEN <<>>
  ELSE IF Head(cs) \in SlugChars
    THEN <<Head(cs)>> \o replaceRuns(Tail(cs), FALSE)
  ELSE IF inRun THEN replaceRuns(Tail(cs), TRUE)
  ELSE <<"-">> \o replaceRuns(Tail(cs), TRUE)

\* Line 41: .replace(/^-+|-+$/g, "").
RECURSIVE stripDashes(_)
stripDashes(cs) ==
  IF cs # <<>> /\ Head(cs) = "-" THEN stripDashes(Tail(cs))
  ELSE IF cs # <<>> /\ cs[Len(cs)] = "-"
    THEN stripDashes(SubSeq(cs, 1, Len(cs) - 1))
  ELSE cs

\* Line 42: the longest slug.
SlugMax == 56

\* Lines 37-43.
toSlug(value) ==
  LET lower == [i \in 1..Len(value) |-> toLowerCase(value[i])] IN
    slice(stripDashes(replaceRuns(lower, FALSE)), 0,
          IF Len(stripDashes(replaceRuns(lower, FALSE))) < SlugMax
            THEN Len(stripDashes(replaceRuns(lower, FALSE)))
            ELSE SlugMax)

\* ---- SHA-1 (node:crypto createHash("sha1")), on 32-bit words kept as
\* ---- <<high half, low half>>, for messages of one block (under 56 bytes).

\* The powers of two up to 2^16.
Pow2Table ==
  <<1, 2, 4, 8, 16, 32, 64, 128, 256, 512, 1024, 2048, 4096, 8192, 16384,
    32768, 65536>>

pow2(n) == Pow2Table[n + 1]

Half == pow2(16)

\* Addition modulo 2^32.
add(a, b) ==
  LET lo == a[2] + b[2]
      hi == a[1] + b[1] + (lo \div Half) IN
    <<hi % Half, lo % Half>>

\* Bit k of a number.
bit(x, k) == (x \div pow2(k)) % 2

\* The sum of sixteen terms, added in pairs so that the evaluation nests
\* four levels and not one per term.
sum16(t(_)) ==
  (((t(0) + t(1)) + (t(2) + t(3))) + ((t(4) + t(5)) + (t(6) + t(7))))
    + (((t(8) + t(9)) + (t(10) + t(11)))
         + ((t(12) + t(13)) + (t(14) + t(15))))

\* Bitwise operations on 16-bit numbers: exclusive or of four, choice, and
\* majority.
parity(x, y, z, u) ==
  LET term(k) ==
        ((bit(x, k) + bit(y, k) + bit(z, k) + bit(u, k)) % 2) * pow2(k)
  IN sum16(term)

ch(x, y, z) ==
  LET term(k) == (IF bit(x, k) = 1 THEN bit(y, k) ELSE bit(z, k)) * pow2(k)
  IN sum16(term)

maj(x, y, z) ==
  LET term(k) == ((bit(x, k) + bit(y, k) + bit(z, k)) \div 2) * pow2(k)
  IN sum16(term)

\* The round function f on words.
combine(f, b, c, d) ==
  CASE f = "ch" -> <<ch(b[1], c[1], d[1]), ch(b[2], c[2], d[2])>>
    [] f = "maj" -> <<maj(b[1], c[1], d[1]), maj(b[2], c[2], d[2])>>
    [] f = "parity" ->
         <<parity(b[1], c[1], d[1], 0), parity(b[2], c[2], d[2], 0)>>

xor4(a, b, c, d) ==
  <<parity(a[1], b[1], c[1], d[1]), parity(a[2], b[2], c[2], d[2])>>

\* Rotation to the left by n bits, 0 <= n <= 16, then by any n < 32.
rotlSmall(w, n) ==
  LET p == pow2(n)
      q == pow2(16 - n) IN
    <<((w[1] * p) % Half) + (w[2] \div q), ((w[2] * p) % Half) + (w[1] \div q)>>

rotl(w, n) ==
  IF n >= 16 THEN rotlSmall(<<w[2], w[1]>>, n - 16) ELSE rotlSmall(w, n)

\* The padded block: the bytes, 0x80, zeros, the length in bits.
padded(bytes) ==
  LET n == Len(bytes) IN
    [i \in 1..64 |->
       IF i <= n THEN bytes[i]
       ELSE IF i = n + 1 THEN 128
       ELSE IF i = 63 THEN (8 * n) \div 256
       ELSE IF i = 64 THEN (8 * n) % 256
       ELSE 0]

blockWords(m) ==
  [i \in 1..16 |->
     <<m[4 * i - 3] * 256 + m[4 * i - 2], m[4 * i - 1] * 256 + m[4 * i]>>]

\* The message schedule with its next word added.
nextWord(ws) ==
  LET t == Len(ws) + 1 IN
    Append(ws, rotl(xor4(ws[t - 3], ws[t - 8], ws[t - 14], ws[t - 16]), 1))

\* The message schedule with its words lo..hi added, in order; the range is
\* halved, and the first half is read before the second starts, so that the
\* evaluation nests a few levels and not one per word.
RECURSIVE schedule(_, _, _)
schedule(ws, lo, hi) ==
  IF lo = hi THEN nextWord(ws)
  ELSE LET mid == (lo + hi) \div 2
           first == schedule(ws, lo, mid) IN
         IF Len(first) # mid THEN first
         ELSE schedule(first, mid + 1, hi)

roundF(t) ==
  IF t <= 20 THEN "ch" ELSE IF t <= 40 THEN "parity"
  ELSE IF t <= 60 THEN "maj" ELSE "parity"

roundK(t) ==
  IF t <= 20 THEN <<23170, 31129>> ELSE IF t <= 40 THEN <<28377, 60321>>
  ELSE IF t <= 60 THEN <<36635, 48348>> ELSE <<51810, 49622>>

\* The sum of five words modulo 2^32.
add5(a, b, c, d, e) ==
  LET lo == a[2] + b[2] + c[2] + d[2] + e[2]
      hi == a[1] + b[1] + c[1] + d[1] + e[1] + (lo \div Half) IN
    <<hi % Half, lo % Half>>

\* Round t on the five working words, f being the round function of the
\* second, third and fourth; f is read before the sum starts.
mix(st, f, ws, t) ==
  IF Len(f) # 2 THEN st
  ELSE <<add5(rotl(st[1], 5), f, st[5], roundK(t), ws[t]),
         st[1], rotl(st[2], 30), st[3], st[4]>>

round(st, ws, t) == mix(st, combine(roundF(t), st[2], st[3], st[4]), ws, t)

\* Rounds lo..hi in order; the range is halved, and the words after the
\* first half are read before the second half starts, so that the
\* evaluation nests a few levels and not one per round.
RECURSIVE rounds(_, _, _, _)
rounds(st, ws, lo, hi) ==
  IF lo = hi THEN round(st, ws, lo)
  ELSE LET mid == (lo + hi) \div 2
           first == rounds(st, ws, lo, mid) IN
         IF Len(first) # 5 THEN first
         ELSE rounds(first, ws, mid + 1, hi)

InitialHash ==
  <<(<<26437, 8961>>), (<<61389, 43913>>), (<<39098, 56574>>),
    (<<4146, 21622>>), (<<50130, 57840>>)>>

HexDigits ==
  <<"0", "1", "2", "3", "4", "5", "6", "7", "8", "9",
    "a", "b", "c", "d", "e", "f">>

hex4(n) ==
  <<HexDigits[(n \div 4096) + 1], HexDigits[((n \div 256) % 16) + 1],
    HexDigits[((n \div 16) % 16) + 1], HexDigits[(n % 16) + 1]>>

\* Line 52: createHash("sha1").update(trimmed).digest("hex").slice(0, 8),
\* the first word of the digest.
\* The schedule is read before the rounds start and the working words
\* before the digest is written, so that one is computed after the other.
sha1Hex8(cs) ==
  LET bytes == [i \in 1..Len(cs) |-> charCode(cs[i])]
      ws == schedule(blockWords(padded(bytes)), 17, 80)
      st == IF Len(ws) = 80 THEN rounds(InitialHash, ws, 1, 80)
            ELSE InitialHash
      h0 == IF Len(st) = 5 THEN add(InitialHash[1], st[1])
            ELSE InitialHash[1] IN
    IF Len(ws) = 80 /\ Len(st) = 5 /\ Len(h0) = 2
      THEN hex4(h0[1]) \o hex4(h0[2])
      ELSE <<>>

\* A path made of the slug alone.
itemPathSlugOnly(kind, key) ==
  LET trimmed == trim(key) IN
    IF trimmed # <<>> /\ \A i \in 1..Len(trimmed) : trimmed[i] \in Digits
      THEN <<"items/", kind, "-">> \o trimmed \o <<".md">>
      ELSE <<"items/", kind, "-">>
             \o (IF toSlug(trimmed) = <<>> THEN <<"item">> ELSE toSlug(trimmed))
             \o <<".md">>

\* Lines 45-54: itemPath on the characters of the key; the pieces of the
\* path in order.
itemPathChars(kind, key) ==
  LET trimmed == trim(key) IN
    IF trimmed # <<>> /\ \A i \in 1..Len(trimmed) : trimmed[i] \in Digits
      THEN <<"items/", kind, "-">> \o trimmed \o <<".md">>
      ELSE LET slug == IF toSlug(trimmed) = <<>> THEN <<"item">>
                       ELSE toSlug(trimmed)
               hash == sha1Hex8(trimmed) IN
             IF Len(hash) # 8 THEN <<>>
             ELSE <<"items/", kind, "-">> \o slug \o <<"-">> \o hash
                    \o <<".md">>

\* The keys itemPath has not been called for yet.
Uncalled == ItemKeys \ DOMAIN pathOf

\* itemPath is called for one more key of the kind; the keys are taken in
\* one order, the result of a call not depending on the calls before it.
ItemPath(key) ==
  /\ key \notin DOMAIN pathOf
  /\ pathOf' = pathOf @@ (key :> Join(itemPathChars(pathKind, key)))
  /\ UNCHANGED pathKind
  /\ UNCHANGED notPathVars

PathInit ==
  /\ pathKind \in ItemKinds
  /\ pathOf = <<>>

PathIdle ==
  /\ pathKind = "issue"
  /\ pathOf = <<>>

PathNext ==
  LET rest == Uncalled IN
    rest # {} /\ ItemPath(CHOOSE key \in rest : TRUE)

\* ----------------------------------- providerItemRef (providers/index.ts)

\* Largest issue or PR number tried.
MaxNumber == 3

\* Items of the remote providers, as fetchProviderItem returns them (jira
\* has issues only; an item without a provider is taken for github's), and
\* local tasks, with each of source path and key present or not.
RefItems ==
  [provider : {"github", "gitlab", "azure", "undefined"},
   kind : {"issue", "pr"}, repo : {"o/r", "PROJ"}, number : 1..MaxNumber,
   key : {"1"}, sourcePath : {"undefined"}, title : {"t"}]
  \cup
  [provider : {"jira"}, kind : {"issue"}, repo : {"o/r", "PROJ"},
   number : 1..MaxNumber, key : {"1"}, sourcePath : {"undefined"},
   title : {"t"}]
  \cup
  [provider : {"local"}, kind : {"task"}, repo : {"undefined"}, number : {0},
   key : {"undefined", "tasks/a.md", "k"},
   sourcePath : {"undefined", "tasks/a.md"}, title : {"t"}]

\* No reference computed yet.
NoRef == "none yet"

\* providerItemRef is called for the item.
ProviderItemRef ==
  /\ UNCHANGED notRefVars
  /\ ref = NoRef
  /\ ref' = providerItemRef(refItem)
  /\ UNCHANGED refItem

RefInit ==
  /\ refItem \in RefItems
  /\ ref = NoRef

RefIdle ==
  /\ refItem = [provider |-> "github", kind |-> "issue", repo |-> "o/r",
                number |-> 1, key |-> "1", sourcePath |-> "undefined",
                title |-> "t"]
  /\ ref = "o/r#1"

RefNext == ProviderItemRef

\* ---------------- commands outside withCollection (doctor, init, command new)

\* Where each command starts: a withCollection command at acquireLock, `ops
\* doctor` at its collection check, `ops init` at the scaffolding, `ops
\* command new` at its check that the file exists.
CommandEntries == {"init", "dopen", "scaffold", "exists"}

\* doctor.ts checkOpsCollection: openCollection(opsRoot); a failure is
\* caught and reported, and doctor ends with status 1.
DoctorOpen(p) ==
  /\ UNCHANGED notLockVars
  /\ pc[p] = "dopen"
  /\ unlockedOp' = access(p)
  /\ \E ok \in BOOLEAN :
       IF ok
         THEN /\ pc' = [pc EXCEPT ![p] = "dvalidate"]
              /\ UNCHANGED err
         ELSE /\ pc' = [pc EXCEPT ![p] = "catch"]
              /\ err' = [err EXCEPT ![p] = "StoreError"]
  /\ UNCHANGED <<marker, pidRead, handlers, errPid, exitHow, acq, rel, sigHeld>>

\* checkOpsCollection: collection.validate().
DoctorValidate(p) ==
  /\ UNCHANGED notLockVars
  /\ pc[p] = "dvalidate"
  /\ unlockedOp' = access(p)
  /\ pc' = [pc EXCEPT ![p] = "dclose"]
  /\ UNCHANGED <<marker, pidRead, handlers, err, errPid, exitHow, acq, rel,
                 sigHeld>>

\* checkOpsCollection: collection.close(), then the report.
DoctorClose(p) ==
  /\ UNCHANGED notLockVars
  /\ pc[p] = "dclose"
  /\ unlockedOp' = access(p)
  /\ pc' = [pc EXCEPT ![p] = "return"]
  /\ UNCHANGED <<marker, pidRead, handlers, err, errPid, exitHow, acq, rel,
                 sigHeld>>

\* init.ts line 19: scaffoldOps writes the managed files under the store
\* root; line 22 then runs withCollection.
Scaffold(p) ==
  /\ UNCHANGED notLockVars
  /\ pc[p] = "scaffold"
  /\ unlockedOp' = access(p)
  /\ \E ok \in BOOLEAN :
       IF ok
         THEN /\ pc' = [pc EXCEPT ![p] = "init"]
              /\ UNCHANGED err
         ELSE /\ pc' = [pc EXCEPT ![p] = "catch"]
              /\ err' = [err EXCEPT ![p] = "StoreError"]
  /\ UNCHANGED <<marker, pidRead, handlers, errPid, exitHow, acq, rel, sigHeld>>

\* command.ts lines 150-161: fs.access(fullPath) without --force; an existing
\* file is an error.
CommandExists(p) ==
  /\ UNCHANGED notLockVars
  /\ pc[p] = "exists"
  /\ unlockedOp' = access(p)
  /\ \E exists \in BOOLEAN :
       IF exists
         THEN /\ pc' = [pc EXCEPT ![p] = "catch"]
              /\ err' = [err EXCEPT ![p] = "CommandExists"]
         ELSE /\ pc' = [pc EXCEPT ![p] = "write"]
              /\ UNCHANGED err
  /\ UNCHANGED <<marker, pidRead, handlers, errPid, exitHow, acq, rel, sigHeld>>

\* command.ts line 163: writeFileForce(fullPath, content).
CommandWrite(p) ==
  /\ UNCHANGED notLockVars
  /\ pc[p] = "write"
  /\ unlockedOp' = access(p)
  /\ pc' = [pc EXCEPT ![p] = "return"]
  /\ UNCHANGED <<marker, pidRead, handlers, err, errPid, exitHow, acq, rel,
                 sigHeld>>

\* Each process runs one command, of any of the four kinds.
CommandInit ==
  /\ marker = Absent
  /\ pc \in [Procs -> CommandEntries]
  /\ pidRead = [p \in Procs |-> 0]
  /\ handlers = [p \in Procs |-> {}]
  /\ err = [p \in Procs |-> "none"]
  /\ errPid = [p \in Procs |-> 0]
  /\ exitHow = [p \in Procs |-> "running"]
  /\ acq = [p \in Procs |-> FALSE]
  /\ rel = [p \in Procs |-> "no"]
  /\ sigHeld = [p \in Procs |-> FALSE]
  /\ unlockedOp = FALSE

CommandNext ==
  \E p \in Procs :
    \/ LockStep(p)
    \/ DoctorOpen(p)
    \/ DoctorValidate(p)
    \/ DoctorClose(p)
    \/ Scaffold(p)
    \/ CommandExists(p)
    \/ CommandWrite(p)

\* ------------------------- the extension's OpsClient queue (extension.js)

\* runJson calls made on one client.
MaxTasks == 3

\* Promise.resolve(), the queue of a new client.
Resolved == [kind |-> "resolved", of |-> 0]

\* next.catch(() => undefined), next being the promise of the i-th enqueue.
CaughtNext(i) == [kind |-> "caught", of |-> i]

NotDelivered == [by |-> 0, ok |-> FALSE]

Settled == {"fulfilled", "rejected"}

\* The promise `next` of the i-th enqueue, this.queue.then(task, task): it
\* follows the promise the task returned.
nextState(ts, i) ==
  IF ts[i].state \in Settled THEN ts[i].state ELSE "pending"

\* The state of a promise the queue has been: the initial one is fulfilled,
\* a caught one is fulfilled once its `next` has settled either way.
refState(ts, r) ==
  IF r.kind = "resolved" THEN "fulfilled"
  ELSE IF nextState(ts, r.of) = "pending" THEN "pending"
  ELSE "fulfilled"

\* enqueue leaving this.queue as it was.
queueKept(q, i) == q

\* Line 222: this.queue = next.catch(() => undefined).
queueAfter(q, i) == CaughtNext(i)

\* runJson, lines 250-251 and 220-224: the task is chained on the queue, the
\* queue moves on, and the caller holds `next`.
RunJson ==
  /\ UNCHANGED notClientVars
  /\ Len(tasks) < MaxTasks
  /\ tasks' = Append(tasks, [after |-> queue, state |-> "queued",
                             got |-> NotDelivered])
  /\ queue' = queueAfter(queue, Len(tasks) + 1)

\* The reaction of then(task, task): the promise the task was chained on has
\* settled, fulfilled or rejected, and the task is called.
Start(i) ==
  /\ UNCHANGED notClientVars
  /\ i \in DOMAIN tasks
  /\ tasks[i].state = "queued"
  /\ refState(tasks, tasks[i].after) # "pending"
  /\ tasks' = [tasks EXCEPT ![i].state = "running"]
  /\ UNCHANGED queue

\* Lines 252-330: the task returns the parsed output or throws.
Settle(i, ok) ==
  /\ UNCHANGED notClientVars
  /\ i \in DOMAIN tasks
  /\ tasks[i].state = "running"
  /\ tasks' = [tasks EXCEPT ![i].state =
                 IF ok THEN "fulfilled" ELSE "rejected"]
  /\ UNCHANGED queue

\* The caller's await of `next`: it gets what the then-callback produced.
Deliver(i) ==
  /\ UNCHANGED notClientVars
  /\ i \in DOMAIN tasks
  /\ tasks[i].got = NotDelivered
  /\ nextState(tasks, i) # "pending"
  /\ tasks' = [tasks EXCEPT ![i].got =
                 [by |-> i, ok |-> nextState(tasks, i) = "fulfilled"]]
  /\ UNCHANGED queue

\* Line 217: a new client.
ClientInit ==
  /\ tasks = <<>>
  /\ queue = Resolved

ClientIdle == ClientInit

ClientNext ==
  \/ RunJson
  \/ \E i \in 1..MaxTasks : Start(i)
  \/ \E i \in 1..MaxTasks : \E ok \in BOOLEAN : Settle(i, ok)
  \/ \E i \in 1..MaxTasks : Deliver(i)

\* ------------------- the extension's runExecWithRetries (extension.js)

\* Line 227: const attempts = 40.
attempts == 40

\* Line 8: LOCK_ERROR_SNIPPET.
LOCK_ERROR_SNIPPET ==
  <<"h", "o", "l", "d", "s", " ", "t", "h", "e", " ", "l", "o", "c", "k">>

\* store.ts lines 23-26: the message of a refused acquire, from its pid to
\* the end of its first sentence.
HeldMessage ==
  <<"(", "P", "I", "D", " ", "7", ")", " ", "h", "o", "l", "d", "s", " ", "t", "h",
    "e", " ", "l", "o", "c", "k", ".">>

\* store.ts line 38: how the message of an acquire that failed otherwise
\* begins.
FailedMessage ==
  <<"F", "a", "i", "l", "e", "d", " ", "t", "o", " ", "a", "c", "q", "u",
    "i", "r", "e", " ", "o", "p", "s", " ", "l", "o", "c", "k">>

\* Two texts that hold the snippet only when put end to end.
SnippetHead ==
  <<"h", "o", "l", "d", "s", " ", "t", "h", "e">>

SnippetTail ==
  <<" ", "l", "o", "c", "k">>

\* A field of a thrown value: a string, or something else (undefined).
StringField(cs) == [isString |-> TRUE, cs |-> cs]

NotAString == [isString |-> FALSE, cs |-> <<>>]

\* What execFileAsync rejects with: an Error carrying message, stdout and
\* stderr, or a value that is no object.
Failures ==
  [kind : {"object"},
   message : {NotAString, StringField(FailedMessage),
              StringField(HeldMessage), StringField(SnippetHead)},
   stdout : {NotAString, StringField(HeldMessage),
             StringField(SnippetTail)},
   stderr : {StringField(<<>>), StringField(HeldMessage),
             StringField(SnippetTail)}]
    \cup {[kind |-> "other", message |-> NotAString, stdout |-> NotAString,
           stderr |-> NotAString]}

ExecSucceeded ==
  [kind |-> "ok", message |-> NotAString, stdout |-> NotAString,
   stderr |-> NotAString]

\* Line 247: the Error thrown after the loop.
RetriesExhausted ==
  [kind |-> "exhausted", message |-> NotAString, stdout |-> NotAString,
   stderr |-> NotAString]

NotRun ==
  [kind |-> "none", message |-> NotAString, stdout |-> NotAString,
   stderr |-> NotAString]

\* String.prototype.includes.
includes(cs, snippet) ==
  \E i \in 1..(Len(cs) - Len(snippet) + 1) :
    SubSeq(cs, i, i + Len(snippet) - 1) = snippet

\* typeof x === "string" ? x : ""
stringOrEmpty(field) == IF field.isString THEN field.cs ELSE <<>>

\* Lines 236-240: `${message}\n${stdout}\n${stderr}` holds the snippet.
isLockError(error) ==
  includes(stringOrEmpty(error.message) \o <<"\n">>
             \o stringOrEmpty(error.stdout) \o <<"\n">>
             \o stringOrEmpty(error.stderr),
           LOCK_ERROR_SNIPPET)

\* The catch block without its limit on the attempts.
rethrowsUnlimited(error, n) ==
  error.kind # "object" \/ ~isLockError(error)

\* Lines 232-243: the catch block throws the error again, or goes on.
rethrows(error, n) ==
  \/ error.kind # "object"
  \/ ~isLockError(error)
  \/ n = attempts

\* Line 230: the CLI ran and exited with status 0.
ExecReturns ==
  /\ UNCHANGED notRetryVars
  /\ xpc = "exec"
  /\ calls' = calls + 1
  /\ execResult' = ExecSucceeded
  /\ xpc' = "returned"
  /\ UNCHANGED attempt

\* Lines 230-244: the CLI failed; the catch block decides.
ExecFails(error) ==
  /\ UNCHANGED notRetryVars
  /\ xpc = "exec"
  /\ calls' = calls + 1
  /\ execResult' = error
  /\ xpc' = IF rethrows(error, attempt) THEN "threw" ELSE "sleep"
  /\ UNCHANGED attempt

\* Lines 244, 228 and 247: the sleep ends, the loop counts on and either
\* runs the CLI again or leaves the loop.
Wake ==
  /\ UNCHANGED notRetryVars
  /\ xpc = "sleep"
  /\ attempt' = attempt + 1
  /\ IF attempt + 1 <= attempts
       THEN xpc' = "exec" /\ UNCHANGED execResult
       ELSE xpc' = "threw" /\ execResult' = RetriesExhausted
  /\ UNCHANGED calls

\* Lines 227-228: one call of runExecWithRetries.
RetryInit ==
  /\ attempt = 1
  /\ xpc = "exec"
  /\ calls = 0
  /\ execResult = NotRun

RetryIdle ==
  /\ attempt = 1
  /\ xpc = "returned"
  /\ calls = 0
  /\ execResult = NotRun

RetryNext ==
  \/ ExecReturns
  \/ \E error \in Failures : ExecFails(error)
  \/ Wake

\* ------------------------------------------------------- specifications

LockSpecInit == LockInit /\ SidecarInit /\ RunIdle /\ IssueIdle /\ ParamIdle /\ ContextIdle /\ TemplateIdle /\ ParseIdle /\ PathIdle /\ RefIdle /\ ClientIdle /\ RetryIdle

LockSpec == LockSpecInit /\ [][LockNext]_vars

\* The same processes, started on a store root whose marker names a process
\* that is gone.
StaleLockSpecInit ==
  /\ LockInit /\ marker \in {PidFile(n) : n \in StalePids}
  /\ SidecarInit /\ RunIdle /\ IssueIdle /\ ParamIdle /\ ContextIdle /\ TemplateIdle /\ ParseIdle /\ PathIdle /\ RefIdle /\ ClientIdle /\ RetryIdle

StaleLockSpec == StaleLockSpecInit /\ [][LockNext]_vars

SidecarSpecInit == SidecarInit /\ LockIdle /\ RunIdle /\ IssueIdle /\ ParamIdle /\ ContextIdle /\ TemplateIdle /\ ParseIdle /\ PathIdle /\ RefIdle /\ ClientIdle /\ RetryIdle

SidecarSpec == SidecarSpecInit /\ [][SidecarNext]_vars

RunSpecInit == RunInit /\ LockIdle /\ SidecarInit /\ IssueIdle /\ ParamIdle /\ ContextIdle /\ TemplateIdle /\ ParseIdle /\ PathIdle /\ RefIdle /\ ClientIdle /\ RetryIdle

RunSpec == RunSpecInit /\ [][RunNext]_vars

IssueSpecInit == IssueInit /\ LockIdle /\ SidecarInit /\ RunIdle /\ ParamIdle /\ ContextIdle /\ TemplateIdle /\ ParseIdle /\ PathIdle /\ RefIdle /\ ClientIdle /\ RetryIdle

IssueSpec == IssueSpecInit /\ [][IssueNext]_vars

ParamSpecInit == ParamInit /\ LockIdle /\ SidecarInit /\ RunIdle /\ IssueIdle /\ ContextIdle /\ TemplateIdle /\ ParseIdle /\ PathIdle /\ RefIdle /\ ClientIdle /\ RetryIdle

ParamSpec == ParamSpecInit /\ [][ParamNext]_vars

ContextSpecInit == ContextInit /\ LockIdle /\ SidecarInit /\ RunIdle /\ IssueIdle /\ ParamIdle /\ TemplateIdle /\ ParseIdle /\ PathIdle /\ RefIdle /\ ClientIdle /\ RetryIdle

ContextSpec == ContextSpecInit /\ [][ContextNext]_vars

TemplateSpecInit == TemplateInit /\ LockIdle /\ SidecarInit /\ RunIdle /\ IssueIdle /\ ParamIdle /\ ContextIdle /\ ParseIdle /\ PathIdle /\ RefIdle /\ ClientIdle /\ RetryIdle

TemplateSpec == TemplateSpecInit /\ [][TemplateNext]_vars

ParseSpecInit == ParseInit /\ LockIdle /\ SidecarInit /\ RunIdle /\ IssueIdle /\ ParamIdle /\ ContextIdle /\ TemplateIdle /\ PathIdle /\ RefIdle /\ ClientIdle /\ RetryIdle

ParseSpec == ParseSpecInit /\ [][ParseNext]_vars

PathSpecInit == PathInit /\ LockIdle /\ SidecarInit /\ RunIdle /\ IssueIdle /\ ParamIdle /\ ContextIdle /\ TemplateIdle /\ ParseIdle /\ RefIdle /\ ClientIdle /\ RetryIdle

PathSpec == PathSpecInit /\ [][PathNext]_vars

RefSpecInit == RefInit /\ LockIdle /\ SidecarInit /\ RunIdle /\ IssueIdle /\ ParamIdle /\ ContextIdle /\ TemplateIdle /\ ParseIdle /\ PathIdle /\ ClientIdle /\ RetryIdle

RefSpec == RefSpecInit /\ [][RefNext]_vars

CommandSpecInit == CommandInit /\ SidecarInit /\ RunIdle /\ IssueIdle /\ ParamIdle /\ ContextIdle /\ TemplateIdle /\ ParseIdle /\ PathIdle /\ RefIdle /\ ClientIdle /\ RetryIdle

CommandSpec == CommandSpecInit /\ [][CommandNext]_vars

RepoSpec == SidecarSpecInit /\ [][RepoNext]_vars

ClientSpecInit == ClientInit /\ LockIdle /\ SidecarInit /\ RunIdle /\ IssueIdle /\ ParamIdle /\ ContextIdle /\ TemplateIdle /\ ParseIdle /\ PathIdle /\ RefIdle /\ RetryIdle

ClientSpec == ClientSpecInit /\ [][ClientNext]_vars

RetrySpecInit == RetryInit /\ LockIdle /\ SidecarInit /\ RunIdle /\ IssueIdle /\ ParamIdle /\ ContextIdle /\ TemplateIdle /\ ParseIdle /\ PathIdle /\ RefIdle /\ ClientIdle

\* Every CLI run ends and every sleep's timer fires.
RetrySpec == RetrySpecInit /\ [][RetryNext]_vars /\ WF_vars(RetryNext)

\* ------------------------------------------------------- claims, LockSpec

\* The processes between a successful acquire and their own release.
Holders == {p \in Procs : Holds(p)}

\* C1: under any interleaving of the acquireLock / releaseLock steps of two
\* or more live processes, also when the marker at first names a dead
\* process, at most one live process at a time is between a successful
\* acquire and its own release.
C1_AtMostOneHolder == Cardinality(Holders) <= 1

\* C2: every store operation of a session (the collection open and close
\* included) happens while the marker exists and contains the pid of the
\* process doing it, signals included.
C2_StoreAccessOnlyUnderOwnMarker == ~unlockedOp

\* p takes a step of its own out of position at (a signal's default action
\* ending p is not a step of p's code).
Leaves(p, at) == pc[p] = at /\ pc'[p] # at /\ pc'[p] # "exited"

\* C3: when acquireLock probes the pid it read from the marker and that
\* process is alive, it fails at once with LockHeld naming that pid, the
\* marker is left as it is, and nothing follows but the command's error
\* exit: no wait, no queue, no retry. LockHeld arises in no other way.
C3_LockHeldFailsFast ==
  [][\A p \in Procs :
       /\ (Leaves(p, "probe") /\ isProcessAlive(pidRead[p]))
            => /\ pc'[p] = "catch"
               /\ err'[p] = "LockHeld"
               /\ errPid'[p] = pidRead[p]
               /\ marker' = marker
       /\ (err'[p] = "LockHeld" /\ err[p] # "LockHeld")
            => (pc[p] = "probe" /\ isProcessAlive(pidRead[p]))
       /\ (pc[p] = "catch" /\ err[p] = "LockHeld" /\ pc'[p] # "catch")
            => (pc'[p] = "exited" /\ marker' = marker)]_vars

\* A process has been refused with LockHeld while the holder it names is
\* alive and its marker is in place.
C3_Witness ==
  \E p \in Procs :
    /\ pc[p] = "catch"
    /\ err[p] = "LockHeld"
    /\ isProcessAlive(errPid[p])
    /\ marker = PidFile(errPid[p])

\* Order of the positions of acquireLock.
AcquireRank(at) ==
  CASE at = "init" -> 0
    [] at = "read" -> 1
    [] at = "probe" -> 2
    [] at = "unlink" -> 3
    [] at = "create2" -> 4
    [] OTHER -> 5

AcquirePCs == {"init", "read", "probe", "unlink", "create2"}

\* C4: after a failed first create, a marker that is stale, vanished or
\* unreadable is deleted and the exclusive create is made exactly once more:
\* on success the marker holds the caller's pid, on failure the error is
\* LockAcquisitionFailed; acquireLock only moves forward through its steps
\* (no third create) and is never stuck, so it always ends.
C4_RetryExactlyOnce ==
  /\ [](\A p \in Procs : pc[p] \in AcquirePCs => ENABLED LockStep(p))
  /\ [][\A p \in Procs :
          /\ (Leaves(p, "read") /\ marker.kind # "pid") => pc'[p] = "unlink"
          /\ (Leaves(p, "probe") /\ ~isProcessAlive(pidRead[p]))
               => pc'[p] = "unlink"
          /\ Leaves(p, "unlink") => (marker' = Absent /\ pc'[p] = "create2")
          /\ (Leaves(p, "create2") /\ marker = Absent)
               => (marker' = PidFile(p) /\ pc'[p] = "onInt" /\ acq'[p])
          /\ (Leaves(p, "create2") /\ marker # Absent)
               => /\ marker' = marker
                  /\ pc'[p] = "catch"
                  /\ err'[p] = "LockAcquisitionFailed"
                  /\ ~acq'[p]
          /\ (pc[p] \in AcquirePCs /\ pc'[p] # pc[p])
               => AcquireRank(pc'[p]) > AcquireRank(pc[p])]_vars

\* The second create of a process has failed: another process took the
\* marker between the unlink and the retry.
C4_Witness ==
  \E p \in Procs :
    /\ pc[p] = "catch"
    /\ err[p] = "LockAcquisitionFailed"
    /\ marker.kind = "pid"
    /\ marker.pid \in Procs \ {p}

\* C5: a process that got SIGINT or SIGTERM between its successful acquire
\* and its release has removed the marker by the time it has exited.
C5_SignalledProcessLeavesNoMarker ==
  \A p \in Procs : (pc[p] = "exited" /\ sigHeld[p]) => marker # PidFile(p)

\* C6: on every path by which a command leaves its session (return, thrown
\* error, process.exit with the agent's exit code, process.exit(2) of
\* command validate) the marker has been removed before the process ends.
C6_NoMarkerLeftOnAnyExitPath ==
  \A p \in Procs :
    (pc[p] = "exited"
       /\ exitHow[p] \in {"return", "error", "agent_exit", "validate_exit"})
      => marker # PidFile(p)

\* C7: releaseLock never fails and leaves the store unlocked, on an absent
\* marker as on a present one, so a second release in a row changes nothing.
C7_ReleaseIdempotent ==
  /\ [](\A p \in Procs : exitHow[p] # "crash")
  /\ [][\A p \in Procs :
          /\ Leaves(p, "release")
               => /\ marker' = Absent
                  /\ err'[p] = err[p]
                  /\ pc'[p] = (IF err[p] = "none" THEN "return" ELSE "catch")
          /\ (rel'[p] # rel[p] /\ pc'[p] = pc[p])
               => (marker' = Absent /\ err'[p] = err[p])]_vars

\* A process released twice (its signal listener, then its finally) with
\* nobody else touching the marker in between, and returned normally.
C7_Witness ==
  \E p \in Procs :
    /\ pc[p] = "return"
    /\ rel[p] = "again"
    /\ marker = Absent
    /\ \A q \in Procs \ {p} : pc[q] = "init"

\* C24: in withCollection the callback runs only after a successful acquire
\* and an opened collection; the process's own release removes its marker
\* only from the outer finally, after the collection has been closed; and
\* once withCollection has been left after a successful acquire, by return
\* or by throw (a failed open and a failed callback included), the release
\* has been made.
C24_SessionOrder ==
  /\ [](\A p \in Procs :
          /\ pc[p] \in AwaitPCs => acq[p]
          /\ (pc[p] \in {"return", "catch"} /\ acq[p]) => rel[p] # "no")
  /\ [][\A p \in Procs :
          /\ Leaves(p, "open") => pc'[p] \in {"fn", "offInt"}
          /\ (marker = PidFile(p) /\ marker' = Absent /\ rel'[p] # rel[p])
               => pc[p] = "release"]_vars

\* C25: a process has cleanup listeners only while it holds the lock: none
\* after a failed acquire, both while its session is open, both still there
\* when the outer finally releases (they are removed after the release), and
\* none once withCollection has returned or thrown.
C25_HandlersOnlyWhileLockHeld ==
  /\ [](\A p \in Procs :
          /\ handlers[p] # {} => Holds(p)
          /\ pc[p] \in AwaitPCs => handlers[p] = Signals
          /\ pc[p] \in {"return", "catch", "exited"} => handlers[p] = {})
  /\ [][\A p \in Procs : Leaves(p, "release") => handlers[p] = Signals]_vars

\* C27: whenever a process runs releaseLock (in the outer finally or in its
\* signal listener) and a marker is there, the marker holds that process's
\* own pid; the marker of another live process is never removed by it.
C27_ReleaseOnlyOwnMarker ==
  [][\A p \in Procs :
       (rel'[p] # rel[p] /\ marker # Absent) => marker = PidFile(p)]_vars

\* ---------------------------------------------------- claims, SidecarSpec

\* The last operation made, when the step made one.
Made(e) == log' = Append(log, e)

\* C8: an ensure on an existing sidecar leaves every local field as it was
\* (present or not, and its value) and writes the fetched remote fields; so
\* after ensure, set local_status=in_progress, ensure, a read shows the
\* latest fetched remote_title together with local_status = in_progress.
C8_EnsureKeepsLocalFields ==
  /\ [][\A item \in Snapshots :
          LET path == itemPath(item.kind, item.key)
              e == [op |-> "ensure", item |-> item, fields |-> <<>>,
                    error |-> FALSE] IN
            (Made(e) /\ store[path].exists)
              => /\ store'[path].exists
                 /\ \A f \in LocalFields :
                      /\ (f \in DOMAIN store'[path].fm)
                           <=> (f \in DOMAIN store[path].fm)
                      /\ f \in DOMAIN store[path].fm
                           => store'[path].fm[f] = store[path].fm[f]
                 /\ \A f \in DOMAIN remoteFields(item) :
                      store'[path].fm[f] = remoteFields(item)[f]]_vars
  /\ [](LET n == Len(log) IN
          (/\ n >= 3
           /\ log[n - 2].op = "ensure"
           /\ log[n - 1].op = "set"
           /\ log[n - 1].fields = [local_status |-> "in_progress"]
           /\ log[n].op = "ensure")
            => LET r == readItem(store, Target) IN
                 /\ ~r.error
                 /\ r.frontmatter.remote_title = log[n].item.title
                 /\ r.frontmatter.local_status = "in_progress")

\* The scenario has run, the second fetch returning a new title.
C8_Witness ==
  /\ Len(log) = 3
  /\ log[1].op = "ensure" /\ log[1].item.title = "Fix bug"
  /\ log[2].op = "set" /\ log[2].fields = [local_status |-> "in_progress"]
  /\ log[3].op = "ensure" /\ log[3].item.title = "Fix login bug"
  /\ readItem(store, Target).frontmatter.remote_title = "Fix login bug"
  /\ readItem(store, Target).frontmatter.local_status = "in_progress"

\* -------------------------------------------------------- claims, RunSpec

\* The required placeholders of a body that a context leaves unresolved.
Unresolved(body, ctx) ==
  {body[i].key : i \in {j \in 1..Len(body) :
     /\ body[j].kind = "var"
     /\ ~body[j].hasFallback
     /\ \/ body[j].key \notin DOMAIN ctx
        \/ ctx[body[j].key] \in {Undefined, Null, Str("")}}}

Range(seq) == {seq[i] : i \in 1..Len(seq)}

\* C9: executeRun never invokes the agent when a required placeholder of the
\* rendered body is unresolved: it fails with the missing-variables error,
\* which names every unresolved path, and runAgent is not called.
C9_NoAgentWithMissingVariables ==
  /\ (agentCalls > 0 \/ rpc = "agent")
       => Unresolved(input.body, input.context) = {}
  /\ (prepared.ok /\ rpc = "done"
        /\ Unresolved(input.body, input.context) # {})
       => /\ result.status = "threw"
          /\ result.error = "MissingVariables"
          /\ Range(result.names) = Unresolved(input.body, input.context)
          /\ agentCalls = 0
  /\ result.error = "MissingVariables"
       => Unresolved(input.body, input.context) # {}

\* A run has failed on two unresolved variables, the agent not called.
C9_Witness ==
  /\ rpc = "done"
  /\ result.error = "MissingVariables"
  /\ Range(result.names) = {"title", "name"}
  /\ agentCalls = 0

\* C10: an executeRun call invokes the agent at most once, and an agent that
\* exits with a non-zero code makes executeRun return (not throw) a result
\* with that very exit code.
C10_AgentOnceExitCodeVerbatim ==
  /\ agentCalls <= 1
  /\ (rpc = "done" /\ child.kind = "exit")
       => /\ agentCalls = 1
          /\ result.status = "returned"
          /\ result.exitCode = child.code

\* The agent exited with the largest code and the run returned it.
C10_Witness ==
  /\ rpc = "done"
  /\ agentCalls = 1
  /\ child = [kind |-> "exit", code |-> MaxExitCode]
  /\ result.status = "returned"
  /\ result.exitCode = MaxExitCode

\* C13: while `ops run` (or triage, or issue address) is executing an agent
\* inside its withCollection callback, an `ops item set` started by that
\* agent on the same store acquires the lock and updates the sidecar: it is
\* not refused with LockHeld naming the running command.
C13_AgentItemSetAcquires ==
  \A p \in Procs : \A q \in Procs \ {p} :
    ~(/\ pc[p] = "fn"
      /\ marker = PidFile(p)
      /\ pc[q] = "catch"
      /\ err[q] = "LockHeld"
      /\ errPid[q] = p)


\* C19: `ops run --dry-run` stops once prepared: on no path does it invoke
\* the agent; it prints the rendered prompt only when no required
\* placeholder is missing and otherwise fails with the missing-variables
\* error.
C19_DryRunNeverRunsAgent ==
  input.dryRun =>
    /\ agentCalls = 0
    /\ rpc # "agent"
    /\ (rpc = "done" /\ prepared.ok) =>
         IF Unresolved(input.body, input.context) = {}
           THEN /\ result.status = "printed"
                /\ result.prompt = prepared.renderedPrompt
           ELSE /\ result.status = "threw"
                /\ result.error = "MissingVariables"

\* A dry run printed the prompt rendered from a text and a variable.
C19_Witness ==
  /\ input.dryRun
  /\ rpc = "done"
  /\ result.status = "printed"
  /\ result.prompt = "Hello x"
  /\ agentCalls = 0

\* ------------------------------------------------------ claims, IssueSpec

\* C11: in `ops issue address`, when the triage run is executed and exits
\* non-zero, the address agent is never invoked and the process exits with
\* the triage run's exit code.
C11_TriageFailureStopsAddress ==
  (~triageResult.threw /\ triageResult.exitCode > 0)
    => /\ ipc = "exited"
       /\ iexit = triageResult.exitCode
       /\ \A i \in 1..Len(agents) : agents[i] # "address"

\* The triage agent ran and failed with the largest exit code; the command
\* has exited with it.
C11_Witness ==
  /\ agents = <<"triage">>
  /\ triageResult.exitCode = MaxExitCode
  /\ ipc = "exited"
  /\ iexit = MaxExitCode

\* C12: unless triage is explicitly skipped, the address agent is invoked
\* only if the sidecar's summary, priority, difficulty and risk are all
\* non-empty when the address run starts.
C12_AddressGatedOnAnalysis ==
  (~iopts.skipTriage /\ \E i \in 1..Len(agents) : agents[i] = "address")
    => hasTriageAnalysis(addressSaw)

\* ------------------------------------------------------ claims, ParamSpec

\* The levels a parameter is looked up in, highest precedence first; mode
\* and cli end with their hardwired fallback.
Chain(s) ==
  <<s.input, s.fm, s.defaults>>
    \o (CASE s.param = "mode" -> <<"interactive">>
          [] s.param = "cli" -> <<"claude">>
          [] OTHER -> <<>>)

IsDefined(x) == x \notin {"undefined", "null"}

\* C14: for each of mode, cli, model, permissionMode, allowedTools,
\* sandboxMode and approvalPolicy, the agent is given the first defined value
\* in the order call-site override, template frontmatter, caller-supplied
\* defaults, with a final fallback for mode (interactive) and cli (claude);
\* when no level defines the parameter, no value is given.
C14_FirstDefinedSettingWins ==
  ppc = "done" =>
    LET chain == Chain(setting) IN
      \/ \E i \in 1..Len(chain) :
           /\ IsDefined(chain[i])
           /\ \A j \in 1..(i - 1) : ~IsDefined(chain[j])
           /\ passed = chain[i]
      \/ /\ \A i \in 1..Len(chain) : ~IsDefined(chain[i])
         /\ ~IsDefined(passed)

\* The model was resolved from the frontmatter: the call site gave none and
\* the defaults gave another.
C14_Witness ==
  /\ ppc = "done"
  /\ setting = [param |-> "model", input |-> "undefined", fm |-> "a",
                defaults |-> "b"]
  /\ passed = "a"

\* C28: a sidecar that exists keeps its id, provider and repo through every
\* later operation, so the record of one item is never rewritten as the
\* record of an item of another repository or provider.
C28_SidecarIdentityStable ==
  [][\A path \in Paths :
       store[path].exists =>
         /\ store'[path].exists
         /\ \A f \in {"id", "provider", "repo"} :
              store'[path].fm[f] = store[path].fm[f]]_vars

\* ---------------------------------------------------- claims, ContextSpec

\* The sidecar frontmatter the call read, if it read one.
SidecarSeen ==
  IF binput.item = NoTarget
    THEN [error |-> TRUE, frontmatter |-> <<>>]
    ELSE sidecarRead(binput)

InSidecar(k) == ~SidecarSeen.error /\ k \in DOMAIN SidecarSeen.frontmatter

InProvider(k) == binput.item # NoTarget /\ k \in ProviderKeys

InExplicit(k) == k \in DOMAIN binput.explicitVars

\* C15: in the context returned by buildContext a key present in both the
\* sidecar frontmatter and the explicit variables has the explicit value; a
\* top-level key present in both the provider item's fields and the sidecar
\* frontmatter (and not set explicitly) has the provider's value; the
\* sidecar frontmatter supplies only the keys no other source set.
C15_ContextPrecedence ==
  cpc = "done" =>
    \A k \in ContextKeys :
      /\ (InSidecar(k) /\ InExplicit(k))
           => context[k] = binput.explicitVars[k]
      /\ (InSidecar(k) /\ InProvider(k) /\ ~InExplicit(k))
           => context[k] = providerValue(binput.item, k)
      /\ (InSidecar(k) /\ ~InProvider(k) /\ ~InExplicit(k)
            /\ k \notin BaseKeys \cup SidecarPathKeys)
           => context[k] = fmValue(k, SidecarSeen.frontmatter[k])

\* A context was built where the sidecar's repo lost to the provider's and
\* its priority lost to the explicit one.
C15_Witness ==
  /\ cpc = "done"
  /\ InSidecar("repo") /\ SidecarSeen.frontmatter["repo"] = "old/r"
  /\ ~InExplicit("repo")
  /\ context["repo"] = Str("o/r")
  /\ InSidecar("priority") /\ InExplicit("priority")
  /\ context["priority"] = Str("v")
  /\ context["remote_title"] # Missing

\* C16: for every key k of explicitVars, whatever its name or value
\* (item_ref and now_iso and empty-string values included), the returned
\* context has context[k] equal to the explicit value.
C16_ExplicitVarsAlwaysWin ==
  cpc = "done" =>
    \A k \in DOMAIN binput.explicitVars :
      context[k] = binput.explicitVars[k]

ValueOf(f, ctx) ==
  IF f.key = <<"p">>
    THEN IF "p" \in DOMAIN ctx.o THEN ctx.o["p"] ELSE NoValue
    ELSE IF "a" \in DOMAIN ctx.o /\ ctx.o["a"].t = "object"
              /\ "b" \in DOMAIN ctx.o["a"].o
           THEN ctx.o["a"].o["b"]
           ELSE NoValue

TreatedAsAbsent(v) ==
  v.t \in {"undefined", "null"} \/ (v.t = "string" /\ v.v = <<>>)

\* The forms the pattern takes: closed by "}}", no space before the "|".
WellFormed(f) == f.close = <<"}", "}">> /\ (f.hasFallback => f.pad2 = 0)

C18_WhitespaceInsignificant ==
  (tpc = "done" /\ form.close = <<"}", "}">>) =>
    /\ extracted = <<Join(form.key)>>
    /\ rendered.text = renderedTight.text

\* ------------------------------------------------------ claims, ParseSpec

HasEquals(p) == \E i \in 1..Len(p) : p[i] = "="

\* The position of the first "=" of a pair that has one.
FirstEquals(p) ==
  CHOOSE i \in 1..Len(p) : p[i] = "=" /\ \A j \in 1..(i - 1) : p[j] # "="

KeyOf(p) == trim(SubSeq(p, 1, FirstEquals(p) - 1))

ValueOfPair(p) == SubSeq(p, FirstEquals(p) + 1, Len(p))

Invalid(p) == ~HasEquals(p) \/ KeyOf(p) = <<>>

IsNumeric(key) == key # <<>> /\ \A i \in 1..Len(key) : key[i] \in Digits

C22_ProviderItemRefFormats ==
  ref # NoRef =>
    ref = (IF refItem.provider = "local" \/ refItem.kind = "task"
             THEN (IF refItem.sourcePath # "undefined" THEN refItem.sourcePath
                   ELSE IF refItem.key # "undefined" THEN refItem.key
                   ELSE refItem.title)
           ELSE IF refItem.kind = "issue"
             THEN refItem.repo \o "#" \o ToString(refItem.number)
           ELSE IF refItem.provider = "gitlab"
             THEN refItem.repo \o "!" \o ToString(refItem.number)
           ELSE refItem.repo \o "#PR" \o ToString(refItem.number))

\* ---------------------------------------------------- claims, CommandSpec

\* Positions from which a command's next step reads or writes files under
\* the store root.
StoreAccessPCs ==
  {"open", "close", "dopen", "dvalidate", "dclose", "scaffold", "exists",
   "write"}

\* C23: whenever a command (a withCollection command, `ops doctor`, `ops
\* init`, `ops command new`) reads or writes files under the store root, the
\* marker holds the pid of its process.
C23_StoreFilesOnlyInSession ==
  [][\A p \in Procs :
       (pc[p] \in StoreAccessPCs /\ pc'[p] # pc[p]) => marker = PidFile(p)]_vars

\* --------------------------------------------------- claims, ClientSpec

\* C29: the tasks of runJson run one at a time in call order: a task has
\* started only if every earlier one has settled, a task whose predecessors
\* have all settled (rejected ones included) can start, and a caller gets
\* the outcome of its own task.
C29_TasksRunInCallOrder ==
  /\ Cardinality({i \in DOMAIN tasks : tasks[i].state = "running"}) <= 1
  /\ \A j \in DOMAIN tasks :
       /\ tasks[j].state # "queued"
            => \A i \in 1..(j - 1) : tasks[i].state \in Settled
       /\ (tasks[j].state = "queued"
             /\ \A i \in 1..(j - 1) : tasks[i].state \in Settled)
            => ENABLED Start(j)
       /\ tasks[j].got # NotDelivered
            => /\ tasks[j].got.by = j
               /\ tasks[j].got.ok = (tasks[j].state = "fulfilled")

\* Three calls were made while the first ran; the second was rejected, the
\* third then ran and its caller got its result.
C29_Witness ==
  /\ Len(tasks) = 3
  /\ tasks[2].after = CaughtNext(1) /\ tasks[3].after = CaughtNext(2)
  /\ tasks[2].state = "rejected"
  /\ tasks[2].got = [by |-> 2, ok |-> FALSE]
  /\ tasks[3].got = [by |-> 3, ok |-> TRUE]

\* ---------------------------------------------------- claims, RetrySpec

\* The failure is an Error one of whose message, stdout and stderr is a
\* string containing 'holds the lock'.
HoldsTheLock(error) ==
  /\ error.kind = "object"
  /\ \E field \in {error.message, error.stdout, error.stderr} :
       field.isString /\ includes(field.cs, LOCK_ERROR_SNIPPET)

\* C30: runExecWithRetries runs the CLI again only after a failure that
\* holds 'holds the lock', at most 40 times in all; it returns the first
\* success, throws any other failure at once, throws the lock failure of
\* the 40th run, and always ends.
C30_RetriesOnlyOnLockError ==
  /\ [](calls <= attempts)
  /\ [](xpc = "returned" => execResult = ExecSucceeded)
  /\ [](xpc = "threw" =>
          /\ execResult \in Failures
          /\ HoldsTheLock(execResult) => calls = attempts)
  /\ [][/\ (calls' = calls + 1 /\ calls >= 1) => HoldsTheLock(execResult)
        /\ xpc \in {"returned", "threw"} => calls' = calls
        /\ (calls' = calls + 1 /\ execResult' \in Failures
              /\ ~HoldsTheLock(execResult')) => xpc' = "threw"]_vars
  /\ <>(xpc \in {"returned", "threw"})

\* Forty runs were refused by a held lock and the last refusal was thrown.
C30_Witness ==
  /\ xpc = "threw"
  /\ calls = attempts
  /\ execResult.kind = "object"
  /\ execResult.stderr = StringField(HeldMessage)
  /\ execResult.message = StringField(FailedMessage)

====
